---- MODULE Spec2Model ----
(***************************************************************************)
(* Model of the CSV/TSV merge engine (merger2.c): quote-aware line         *)
(* parsing, schema detection, per-file key -> row tables with duplicate    *)
(* key merging, eligibility computation, shuffling and the wide output.    *)
(*                                                                         *)
(* A C string is a sequence of one-character strings; a char* that may be  *)
(* NULL is a sequence of length 0 (NULL) or 1 (pointer to the string).     *)
(***************************************************************************)
EXTENDS Integers, Sequences, FiniteSets, TLC

\* ------------------------------------------------------------------------
\* Bounds of the model
\* ------------------------------------------------------------------------
MaxFiles == 2
MaxRows == 3

\* ------------------------------------------------------------------------
\* Program constants
\* ------------------------------------------------------------------------
HASH_BUCKETS == 200003
USED_BUCKETS == 4099
OUTPUT_DELIM == ","
MERGE_SEP == <<" ", "|", "|", " ">>
DEFAULT_SAMPLE == 100000
STEM_BUF_CLAIM == 512
STEM_BUF_HEADER == 256
ID_BUF == 512
NAME_BUF == 1024
DEDUP_BUF == 1200
FALLBACK_ID_NAME == <<"p", "a", "t", "e", "n", "t", "_", "i", "d">>

\* ------------------------------------------------------------------------
\* Characters
\* ------------------------------------------------------------------------
Printable ==
  <<" ", "!", "\"", "#", "$", "%", "&", "'", "(", ")", "*", "+", ",", "-",
    ".", "/", "0", "1", "2", "3", "4", "5", "6", "7", "8", "9", ":", ";",
    "<", "=", ">", "?", "@", "A", "B", "C", "D", "E", "F", "G", "H", "I",
    "J", "K", "L", "M", "N", "O", "P", "Q", "R", "S", "T", "U", "V", "W",
    "X", "Y", "Z", "[", "\\", "]", "^", "_", "GRAVE", "a", "b", "c", "d", "e",
    "f", "g", "h", "i", "j", "k", "l", "m", "n", "o", "p", "q", "r", "s",
    "t", "u", "v", "w", "x", "y", "z", "{", "|", "}", "~">>

Ord(c) ==
  IF c = "\t" THEN 9
  ELSE IF c = "\n" THEN 10
  ELSE IF c = "\r" THEN 13
  ELSE 31 + (CHOOSE i \in 1..Len(Printable) : Printable[i] = c)

Digits == {"0", "1", "2", "3", "4", "5", "6", "7", "8", "9"}

isdigit(c) == c \in Digits

tolower(c) ==
  LET o == Ord(c) IN IF o >= 65 /\ o <= 90 THEN Printable[o + 32 - 31] ELSE c

tolower_inplace(s) == [i \in 1..Len(s) |-> tolower(s[i])]

Min(a, b) == IF a < b THEN a ELSE b

\* snprintf(buf, size, "%s", s): at most size-1 characters are kept
Truncate(s, size) == SubSeq(s, 1, Min(Len(s), size - 1))

\* strstr(hay, needle) != NULL
Contains(hay, needle) ==
  \E i \in 1..(Len(hay) - Len(needle) + 1) :
    SubSeq(hay, i, i + Len(needle) - 1) = needle

\* offset (1-based) of the first occurrence of needle in hay, 0 if none
StrStr(hay, needle) ==
  IF Contains(hay, needle)
  THEN CHOOSE i \in 1..(Len(hay) - Len(needle) + 1) :
         /\ SubSeq(hay, i, i + Len(needle) - 1) = needle
         /\ \A j \in 1..(i - 1) : SubSeq(hay, j, j + Len(needle) - 1) # needle
  ELSE 0

\* strrchr: 1-based index of the last occurrence of c in s, 0 if none
StrRChr(s, c) ==
  IF \E i \in 1..Len(s) : s[i] = c
  THEN CHOOSE i \in 1..Len(s) : s[i] = c /\ \A j \in (i + 1)..Len(s) : s[j] # c
  ELSE 0

trim_eol(s) ==
  LET keep == {n \in 0..Len(s) : \A j \in (n + 1)..Len(s) : s[j] \in {"\n", "\r"}}
      n == CHOOSE m \in keep : \A k \in keep : m <= k
  IN SubSeq(s, 1, n)

file_stem(path, outsz) ==
  LET slash == StrRChr(path, "/")
      base == SubSeq(path, slash + 1, Len(path))
      dot == StrRChr(base, ".")
      len == IF dot # 0 THEN dot - 1 ELSE Len(base)
      n == IF len >= outsz THEN outsz - 1 ELSE len
  IN SubSeq(base, 1, n)

DigitVal(c) == Ord(c) - 48

RECURSIVE DecStr(_)
\* printf("%d") of a non-negative int
DecStr(n) ==
  IF n < 10 THEN <<Printable[n + 48 - 31]>>
  ELSE Append(DecStr(n \div 10), Printable[(n % 10) + 48 - 31])

\* ------------------------------------------------------------------------
\* DelimitedLineParser
\* ------------------------------------------------------------------------
RECURSIVE ParseFrom(_, _, _, _, _, _)
RECURSIVE ParseFrom_mut(_, _, _, _, _, _)
\* a quote met in quoted mode always leaves it
ParseFrom_mut(line, delim, p, inQuotes, buf, out) ==
  IF p > Len(line) THEN Append(out, buf)
  ELSE LET c == line[p] IN
    IF inQuotes
    THEN IF c = "\""
         THEN ParseFrom_mut(line, delim, p + 1, FALSE, buf, out)
         ELSE ParseFrom_mut(line, delim, p + 1, TRUE, Append(buf, c), out)
    ELSE IF c = "\""
         THEN ParseFrom_mut(line, delim, p + 1, TRUE, buf, out)
         ELSE IF c = delim
              THEN ParseFrom_mut(line, delim, p + 1, FALSE, <<>>, Append(out, buf))
              ELSE ParseFrom_mut(line, delim, p + 1, FALSE, Append(buf, c), out)

\* the loop of parse_delim_line from position p with state (inQuotes, buf, out)
ParseFrom(line, delim, p, inQuotes, buf, out) ==
  IF p > Len(line) THEN Append(out, buf)
  ELSE LET c == line[p] IN
    IF inQuotes
    THEN IF c = "\""
         THEN IF p + 1 <= Len(line) /\ line[p + 1] = "\""
              THEN ParseFrom(line, delim, p + 2, TRUE, Append(buf, "\""), out)
              ELSE ParseFrom(line, delim, p + 1, FALSE, buf, out)
         ELSE ParseFrom(line, delim, p + 1, TRUE, Append(buf, c), out)
    ELSE IF c = "\""
         THEN ParseFrom(line, delim, p + 1, TRUE, buf, out)
         ELSE IF c = delim
              THEN ParseFrom(line, delim, p + 1, FALSE, <<>>, Append(out, buf))
              ELSE ParseFrom(line, delim, p + 1, FALSE, Append(buf, c), out)

\* an empty last field is not pushed
parse_delim_line_mut(line, delim) ==
  LET fields == ParseFrom(line, delim, 1, FALSE, <<>>, <<>>)
  IN IF Len(fields) > 1 /\ fields[Len(fields)] = <<>>
     THEN SubSeq(fields, 1, Len(fields) - 1)
     ELSE fields

parse_delim_line(line, delim) == ParseFrom(line, delim, 1, FALSE, <<>>, <<>>)

\* ------------------------------------------------------------------------
\* Hash map with chaining
\* ------------------------------------------------------------------------
RECURSIVE Djb2From(_, _, _)
\* h = ((h << 5) + h) + c in unsigned long; the 64-bit value cannot wrap for
\* keys shorter than 11 characters, which covers every key of the model
Djb2From(s, i, h) ==
  IF i > Len(s) THEN h
  ELSE Djb2From(s, i + 1, h * 33 + Ord(s[i]))

djb2(s) == Djb2From(s, 1, 5381)

\* An HMap is [nb, entries]: entries in insertion order, each [key, value].
\* Bucket h holds the entries with djb2(key) % nb = h, newest first.
hmap_init(nb) == [nb |-> nb, entries |-> <<>>]

HasKey(m, key) == \E i \in 1..Len(m.entries) : m.entries[i].key = key

EntryIdx(m, key) == CHOOSE i \in 1..Len(m.entries) : m.entries[i].key = key

\* hmap_get: the entry, as a 0/1-length sequence (NULL or pointer)
hmap_get(m, key) ==
  IF HasKey(m, key) THEN <<m.entries[EntryIdx(m, key)]>> ELSE <<>>

\* a put that never finds the existing entry
hmap_put_mut(m, key, value) ==
  [m EXCEPT !.entries = Append(@, [key |-> key, value |-> value])]

hmap_put(m, key, value) ==
  IF HasKey(m, key)
  THEN [m EXCEPT !.entries[EntryIdx(m, key)].value = value]
  ELSE [m EXCEPT !.entries = Append(@, [key |-> key, value |-> value])]

\* the keys of the map in the order of the bucket walk
\*   for (b = 0; b < nb; ++b) for (e = buckets[b]; e; e = e->next)
\* i.e. by ascending bucket, and inside one bucket newest entry first
WalkBefore(m, i, j) ==
  LET bi == djb2(m.entries[i].key) % m.nb
      bj == djb2(m.entries[j].key) % m.nb
  IN bi < bj \/ (bi = bj /\ i > j)

RECURSIVE WalkFrom(_, _)
WalkFrom(m, rest) ==
  IF rest = {} THEN <<>>
  ELSE LET i == CHOOSE x \in rest : \A y \in rest \ {x} : WalkBefore(m, x, y)
       IN <<m.entries[i].key>> \o WalkFrom(m, rest \ {i})

hmap_walk(m) == WalkFrom(m, 1..Len(m.entries))

\* ------------------------------------------------------------------------
\* SchemaDetector
\* ------------------------------------------------------------------------
LowerName(name) == tolower_inplace(Truncate(name, ID_BUF))

S_application_number ==
  <<"a", "p", "p", "l", "i", "c", "a", "t", "i", "o", "n", "_",
    "n", "u", "m", "b", "e", "r">>
S_patent == <<"p", "a", "t", "e", "n", "t">>
S_number == <<"n", "u", "m", "b", "e", "r">>
S_id == <<"i", "d">>
S_app == <<"a", "p", "p">>
S_claims_ == <<"c", "l", "a", "i", "m", "s", "_">>

IsAppNumber(name) == Contains(LowerName(name), S_application_number)

IsPatentId(name) ==
  /\ Contains(LowerName(name), S_patent)
  /\ (Contains(LowerName(name), S_number) \/ Contains(LowerName(name), S_id))

IsAppFallback(name) ==
  Contains(LowerName(name), S_app) /\ Contains(LowerName(name), S_number)

RECURSIVE DetectSecond(_, _, _)
\* the second loop of detect_id_col from column i (0-based) with fallback best
DetectSecond(cols, i, best) ==
  IF i >= Len(cols) THEN (IF best # -1 THEN best ELSE 0)
  ELSE IF IsPatentId(cols[i + 1]) THEN i
  ELSE IF IsAppFallback(cols[i + 1]) /\ best = -1
       THEN DetectSecond(cols, i + 1, i)
       ELSE DetectSecond(cols, i + 1, best)

\* the loop looking for application_number is missing
detect_id_col_mut(cols) == DetectSecond(cols, 0, -1)

detect_id_col(cols) ==
  IF \E i \in 1..Len(cols) : IsAppNumber(cols[i])
  THEN (CHOOSE i \in 1..Len(cols) :
          IsAppNumber(cols[i]) /\ \A j \in 1..(i - 1) : ~IsAppNumber(cols[j])) - 1
  ELSE DetectSecond(cols, 0, -1)

RECURSIVE YearFrom(_, _, _, _)
\* for (i = 0; i < 4 && isdigit(p[i]); ++i) year = year * 10 + (p[i] - '0')
YearFrom(stem, p, i, year) ==
  IF i < 4 /\ p + i <= Len(stem) /\ isdigit(stem[p + i])
  THEN YearFrom(stem, p, i + 1, year * 10 + DigitVal(stem[p + i]))
  ELSE year

parse_claim_year_from_name(path) ==
  LET stem == tolower_inplace(file_stem(path, STEM_BUF_CLAIM))
      at == StrStr(stem, S_claims_)
      p == at + 7
  IN IF at = 0 THEN 0
     ELSE IF ~(p <= Len(stem) /\ isdigit(stem[p])) THEN 0
     ELSE YearFrom(stem, p, 0, 0)

\* ------------------------------------------------------------------------
\* FileTable
\* ------------------------------------------------------------------------
NULL == <<>>
Ptr(s) == <<s>>

\* a FileStore as calloc leaves it
ZeroStore ==
  [path |-> NULL, delim |-> "", id_col |-> 0, is_claim |-> FALSE,
   claim_year |-> 0, cols |-> <<>>, ncols |-> 0, n_nonid |-> 0,
   id_to_idx |-> [nb |-> 0, entries |-> <<>>],
   ids |-> <<>>, cells |-> <<>>, nrows |-> 0]

filestore_init(path) ==
  [ZeroStore EXCEPT !.path = Ptr(path), !.delim = ",",
                    !.id_to_idx = hmap_init(HASH_BUCKETS)]

\* filestore_add_row: the store with the new row; the row index is the old nrows
filestore_add_row(fs, id) ==
  [fs EXCEPT !.ids = Append(@, id),
             !.cells = Append(@, [k \in 1..fs.n_nonid |-> NULL]),
             !.id_to_idx = hmap_put(@, id, fs.nrows),
             !.nrows = @ + 1]

\* every id gets a new row, without a look at the index
filestore_get_or_create_mut(fs, id) ==
  [fs |-> filestore_add_row(fs, id), idx |-> fs.nrows]

\* filestore_get_or_create: [fs, idx]
filestore_get_or_create(fs, id) ==
  LET e == hmap_get(fs.id_to_idx, id) IN
  IF e # NULL THEN [fs |-> fs, idx |-> e[1].value]
  ELSE [fs |-> filestore_add_row(fs, id), idx |-> fs.nrows]

\* last value wins instead of concatenation
append_cell_merge_mut(dst, src) ==
  IF src = <<>> THEN dst ELSE Ptr(src)

append_cell_merge(dst, src) ==
  IF src = <<>> THEN dst
  ELSE IF dst = NULL THEN Ptr(src)
  ELSE Ptr(dst[1] \o MERGE_SEP \o src)

RECURSIVE MergeLoop(_, _, _, _, _, _)
\* for (i = 0; i < rowFields.count; ++i) of load_file, on the cells of one row
MergeLoop(row, rowFields, id_col, n_nonid, i, k) ==
  IF i >= Len(rowFields) THEN row
  ELSE IF i = id_col THEN MergeLoop(row, rowFields, id_col, n_nonid, i + 1, k)
  ELSE IF k < n_nonid
       THEN MergeLoop([row EXCEPT ![k + 1] = append_cell_merge(@, rowFields[i + 1])],
                      rowFields, id_col, n_nonid, i + 1, k + 1)
       ELSE MergeLoop(row, rowFields, id_col, n_nonid, i + 1, k + 1)

\* the header part of load_file, on the first line read
\* a tab in the header selects the tab, whether or not a comma is there too
load_header_mut(fs, raw) ==
  LET line == trim_eol(raw)
      delim == IF \E i \in 1..Len(line) : line[i] = "\t" THEN "\t" ELSE ","
      year == parse_claim_year_from_name(fs.path[1])
      headerFields == parse_delim_line(line, delim)
      ncols == Len(headerFields)
  IN [fs EXCEPT !.delim = delim, !.claim_year = year,
                !.is_claim = (year > 0),
                !.ncols = ncols, !.cols = headerFields,
                !.id_col = detect_id_col(headerFields),
                !.n_nonid = IF ncols > 0 THEN ncols - 1 ELSE 0]

load_header(fs, raw) ==
  LET line == trim_eol(raw)
      delim == IF (\E i \in 1..Len(line) : line[i] = "\t")
                  /\ ~(\E i \in 1..Len(line) : line[i] = ",")
               THEN "\t" ELSE ","
      year == parse_claim_year_from_name(fs.path[1])
      headerFields == parse_delim_line(line, delim)
      ncols == Len(headerFields)
  IN [fs EXCEPT !.delim = delim, !.claim_year = year,
                !.is_claim = (year > 0),
                !.ncols = ncols, !.cols = headerFields,
                !.id_col = detect_id_col(headerFields),
                !.n_nonid = IF ncols > 0 THEN ncols - 1 ELSE 0]

\* a row with fewer fields than the header is dropped
load_row_mut(fs, raw) ==
  LET line == trim_eol(raw) IN
  IF line = <<>> THEN fs
  ELSE LET rowFields == parse_delim_line(line, fs.delim) IN
    IF Len(rowFields) = 0 THEN fs
    ELSE IF fs.id_col >= Len(rowFields) \/ Len(rowFields) < fs.ncols THEN fs
    ELSE LET id == rowFields[fs.id_col + 1]
             g == filestore_get_or_create(fs, id)
         IN [g.fs EXCEPT !.cells[g.idx + 1] =
               MergeLoop(@, rowFields, fs.id_col, fs.n_nonid, 0, 0)]

\* one iteration of the data loop of load_file
load_row(fs, raw) ==
  LET line == trim_eol(raw) IN
  IF line = <<>> THEN fs
  ELSE LET rowFields == parse_delim_line(line, fs.delim) IN
    IF Len(rowFields) = 0 THEN fs
    ELSE IF fs.id_col >= Len(rowFields) THEN fs
    ELSE LET id == rowFields[fs.id_col + 1]
             g == filestore_get_or_create(fs, id)
         IN [g.fs EXCEPT !.cells[g.idx + 1] =
               MergeLoop(@, rowFields, fs.id_col, fs.n_nonid, 0, 0)]

\* ------------------------------------------------------------------------
\* EligibilitySetBuilder
\* ------------------------------------------------------------------------
RECURSIVE PutAll(_, _, _)
PutAll(m, ids, r) ==
  IF r > Len(ids) THEN m ELSE PutAll(hmap_put(m, ids[r], -1), ids, r + 1)

RECURSIVE ClaimsUnionFrom(_, _, _)
ClaimsUnionFrom(stores, i, m) ==
  IF i > Len(stores) THEN m
  ELSE IF stores[i].is_claim
       THEN ClaimsUnionFrom(stores, i + 1, PutAll(m, stores[i].ids, 1))
       ELSE ClaimsUnionFrom(stores, i + 1, m)

ClaimsUnion(stores) == ClaimsUnionFrom(stores, 1, hmap_init(HASH_BUCKETS))

\* have_claims set only when the first file is a claims file
HaveClaims_mut(stores) == stores[1].is_claim

HaveClaims(stores) == \E i \in 1..Len(stores) : stores[i].is_claim

RECURSIVE BaseFrom(_, _, _)
RECURSIVE BaseFrom_mut(_, _, _)
\* a later primary table with as many rows replaces the base
BaseFrom_mut(stores, i, baseIndex) ==
  IF i >= Len(stores) THEN baseIndex
  ELSE IF ~stores[i + 1].is_claim
          /\ (baseIndex = -1 \/ stores[i + 1].nrows <= stores[baseIndex + 1].nrows)
       THEN BaseFrom_mut(stores, i + 1, i)
       ELSE BaseFrom_mut(stores, i + 1, baseIndex)

\* the base selection loop; indexes are 0-based, -1 when there is no primary
BaseFrom(stores, i, baseIndex) ==
  IF i >= Len(stores) THEN baseIndex
  ELSE IF ~stores[i + 1].is_claim
          /\ (baseIndex = -1 \/ stores[i + 1].nrows < stores[baseIndex + 1].nrows)
       THEN BaseFrom(stores, i + 1, i)
       ELSE BaseFrom(stores, i + 1, baseIndex)

BaseIndex(stores) == BaseFrom(stores, 0, -1)

\* the probe of the other tables starting at the second file
InOtherPrimaries_mut(stores, baseIndex, id) ==
  \A i \in 1..(Len(stores) - 1) :
    (i = baseIndex \/ stores[i + 1].is_claim)
      \/ hmap_get(stores[i + 1].id_to_idx, id) # NULL

InOtherPrimaries(stores, baseIndex, id) ==
  \A i \in 0..(Len(stores) - 1) :
    (i = baseIndex \/ stores[i + 1].is_claim)
      \/ hmap_get(stores[i + 1].id_to_idx, id) # NULL

RECURSIVE ProbeFrom(_, _, _, _)
\* the probe loop over the rows of the base table
ProbeFrom(stores, baseIndex, r, acc) ==
  IF r >= stores[baseIndex + 1].nrows THEN acc
  ELSE LET id == stores[baseIndex + 1].ids[r + 1] IN
    IF ~InOtherPrimaries(stores, baseIndex, id)
    THEN ProbeFrom(stores, baseIndex, r + 1, acc)
    ELSE IF HaveClaims(stores) /\ hmap_get(ClaimsUnion(stores), id) = NULL
    THEN ProbeFrom(stores, baseIndex, r + 1, acc)
    ELSE ProbeFrom(stores, baseIndex, r + 1, Append(acc, id))

\* with a primary table every key of the base is eligible, without a probe
build_eligible_ids_mut(stores) ==
  LET baseIndex == BaseIndex(stores) IN
  IF baseIndex = -1
  THEN (IF ~HaveClaims(stores) THEN <<>> ELSE hmap_walk(ClaimsUnion(stores)))
  ELSE stores[baseIndex + 1].ids

build_eligible_ids(stores) ==
  LET baseIndex == BaseIndex(stores) IN
  IF baseIndex = -1
  THEN (IF ~HaveClaims(stores) THEN <<>> ELSE hmap_walk(ClaimsUnion(stores)))
  ELSE ProbeFrom(stores, baseIndex, 0, <<>>)

\* ------------------------------------------------------------------------
\* MergeWriter.  The output is kept as the cells handed to the stream: the
\* header is the sequence of names, a data row the sequence of its cells,
\* each cell the text written between two emitted delimiters.
\* ------------------------------------------------------------------------
\* the year suffix left out
NameBuf_mut(fs, c) == Truncate(fs.cols[c + 1], NAME_BUF)

NameBuf(fs, c) ==
  IF fs.is_claim /\ fs.claim_year > 0
  THEN Truncate(fs.cols[c + 1] \o <<"_">> \o DecStr(fs.claim_year), NAME_BUF)
  ELSE Truncate(fs.cols[c + 1], NAME_BUF)

\* the renamed duplicate without the brackets around the stem
Dedup_mut(namebuf, stem) == Truncate(namebuf \o <<"_">> \o stem, DEDUP_BUF)

Dedup(namebuf, stem) == Truncate(namebuf \o <<"[">> \o stem \o <<"]">>, DEDUP_BUF)

RECURSIVE HeaderFrom(_, _, _, _, _)
\* the two nested loops of write_header from file i, column c (0-based)
HeaderFrom(stores, i, c, used, out) ==
  IF i >= Len(stores) THEN out
  ELSE IF c >= stores[i + 1].ncols THEN HeaderFrom(stores, i + 1, 0, used, out)
  ELSE IF c = stores[i + 1].id_col THEN HeaderFrom(stores, i, c + 1, used, out)
  ELSE LET stem == file_stem(stores[i + 1].path[1], STEM_BUF_HEADER)
           namebuf == NameBuf(stores[i + 1], c)
           name == IF hmap_get(used, namebuf) # NULL
                   THEN Dedup(namebuf, stem) ELSE namebuf
       IN HeaderFrom(stores, i, c + 1, hmap_put(used, name, 1), Append(out, name))

write_header(stores, idName) ==
  HeaderFrom(stores, 0, 0, hmap_put(hmap_init(USED_BUCKETS), idName, 1), <<idName>>)

CellText(cell) == IF cell = NULL THEN <<>> ELSE cell[1]

\* one blank per column, the key column included
FileCells_mut(fs, id) ==
  LET e == hmap_get(fs.id_to_idx, id)
  IN IF e # NULL
     THEN [k \in 1..fs.n_nonid |-> CellText(fs.cells[e[1].value + 1][k])]
     ELSE [k \in 1..fs.ncols |-> <<>>]

\* the cells one file contributes to the row of id
FileCells(fs, id) ==
  LET e == hmap_get(fs.id_to_idx, id)
      blanks == fs.ncols - 1
  IN IF e # NULL
     THEN [k \in 1..fs.n_nonid |-> CellText(fs.cells[e[1].value + 1][k])]
     ELSE [k \in 1..blanks |-> <<>>]

RECURSIVE RowFrom(_, _, _, _)
RowFrom(stores, id, f, acc) ==
  IF f >= Len(stores) THEN acc
  ELSE RowFrom(stores, id, f + 1, acc \o FileCells(stores[f + 1], id))

\* every id is written, whatever the sample size
write_rows_mut(stores, ids, nsel) ==
  [i \in 1..Len(ids) |-> RowFrom(stores, ids[i], 0, <<ids[i]>>)]

write_rows(stores, ids, nsel) ==
  [i \in 1..nsel |-> RowFrom(stores, ids[i], 0, <<ids[i]>>)]

\* main: the name of the key column of the first file
IdName(stores) ==
  IF stores[1].ncols > 0 /\ stores[1].id_col < stores[1].ncols
  THEN stores[1].cols[stores[1].id_col + 1]
  ELSE FALLBACK_ID_NAME

\* (size_t)sample > n for an int sample: a negative int converts to a value
\* of at least 2^64 - 2^31, above any element count
SizeTGreater(sample, n) == sample < 0 \/ sample > n

\* ------------------------------------------------------------------------
\* Inputs of a run
\* ------------------------------------------------------------------------
P_a == <<"a", ".", "c", "s", "v">>
P_claims == <<"d", "/", "C", "l", "a", "i", "m", "s", "_", "2", "0", "0", "1", ".", "t", "s", "v">>
P_b == <<"b", ".", "c", "s", "v">>
Paths == {P_a, P_claims}
OutPaths == {P_a, P_b, P_claims}

H_id_x == <<"i", "d", ",", "x">>
H_x_x_x == <<"x", ",", "x", ",", "x">>
H_y_pid == <<"y", ",", "p", "a", "t", "e", "n", "t", "_", "i", "d">>
Headers == {H_id_x, H_x_x_x, H_y_pid}

\* data lines with three different keys, one line shorter and one longer
\* than the header id,x
L_1_1 == <<"1", ",", "1">>
L_3 == <<"3">>
L_2_2_2 == <<"2", ",", "2", ",", "2">>
Lines == {L_1_1, L_3, L_2_2_2}

Samples == {-1, 0, 1, DEFAULT_SAMPLE}

\* ------------------------------------------------------------------------
\* State of a run of main
\* ------------------------------------------------------------------------
VARIABLES
  pc,          \* position in main
  paths,       \* argv[argIndex ..]: the input paths
  sample,      \* int sample
  requested,   \* history: the value of -n as given
  fi,          \* index i of the file being loaded (0-based)
  fileStores,  \* FileStore fileStores[nfiles]
  input,       \* history: per file, the header line and the data lines read
  eligibleIDs, \* SVec eligibleIDs
  si,          \* index i of shuffle
  out,         \* the output stream: [open, header, rows]
  exit_code,   \* -1 while running, then the exit status
  call,        \* a single function under test: its arguments and its result
  variant      \* a run of another program of the repository: its variables

vars == <<pc, paths, sample, requested, fi, fileStores, input, eligibleIDs,
          si, out, exit_code, call, variant>>

\* no other program runs while main of merger2.c runs
NoVariant == [prog |-> "none"]

\* no function is under test while main runs
NoCall == [fn |-> "none"]

nfiles == Len(paths)

NoInput == [header |-> NULL, lines |-> <<>>]

RECURSIVE SumLines(_, _)
SumLines(inp, i) == IF i > Len(inp) THEN 0 ELSE Len(inp[i].lines) + SumLines(inp, i + 1)

\* number of data lines read so far in the run
TotalRead == SumLines(input, 1)

InitWith(PathSet, SampleSet, maxFiles) ==
  /\ pc = "open"
  /\ \E n \in 1..maxFiles : paths \in [1..n -> PathSet]
  /\ sample \in SampleSet
  /\ requested = sample
  /\ fi = 0
  /\ fileStores = [i \in 1..Len(paths) |-> ZeroStore]
  /\ input = [i \in 1..Len(paths) |-> NoInput]
  /\ eligibleIDs = <<>>
  /\ si = 0
  /\ out = [open |-> FALSE, header |-> <<>>, rows |-> <<>>]
  /\ exit_code = -1
  /\ call = NoCall
  /\ variant = NoVariant

Init == InitWith(Paths, Samples, MaxFiles)

\* the eligibility computation follows the first file
NextFile_mut ==
  /\ fi' = fi + 1
  /\ pc' = "eligible"

\* main: ++i in the load loop, which ends when i reaches nfiles
NextFile ==
  /\ fi' = fi + 1
  /\ pc' = IF fi + 1 < nfiles THEN "open" ELSE "eligible"

\* load_file: fopen fails, exit(1)
OpenFail ==
  /\ pc = "open"
  /\ fileStores' = [fileStores EXCEPT ![fi + 1] = filestore_init(paths[fi + 1])]
  /\ pc' = "done"
  /\ exit_code' = 1
  /\ UNCHANGED <<call, variant, paths, sample, requested, fi, input, eligibleIDs, si, out>>

\* the category is taken from the name before the header is looked for
EmptyFile_mut ==
  /\ pc = "open"
  /\ LET year == parse_claim_year_from_name(paths[fi + 1])
     IN fileStores' = [fileStores EXCEPT ![fi + 1] =
          [filestore_init(paths[fi + 1]) EXCEPT !.claim_year = year,
                                                !.is_claim = (year > 0)]]
  /\ NextFile
  /\ UNCHANGED <<call, variant, paths, sample, requested, input, eligibleIDs, si, out, exit_code>>

\* load_file: the first fgets returns NULL, the file has no header
EmptyFile ==
  /\ pc = "open"
  /\ fileStores' = [fileStores EXCEPT ![fi + 1] = filestore_init(paths[fi + 1])]
  /\ NextFile
  /\ UNCHANGED <<call, variant, paths, sample, requested, input, eligibleIDs, si, out, exit_code>>

\* filestore_init and the header part of load_file
OpenFile(HeaderSet) ==
  /\ pc = "open"
  /\ \E h \in HeaderSet :
       /\ fileStores' = [fileStores EXCEPT ![fi + 1] =
                           load_header(filestore_init(paths[fi + 1]), h)]
       /\ input' = [input EXCEPT ![fi + 1].header = Ptr(h)]
  /\ pc' = "rows"
  /\ UNCHANGED <<call, variant, paths, sample, requested, fi, eligibleIDs, si, out, exit_code>>

\* one data line read by fgets and ingested
ReadRow(LineSet, maxRows) ==
  /\ pc = "rows"
  /\ TotalRead < maxRows
  /\ \E l \in LineSet :
       /\ fileStores' = [fileStores EXCEPT ![fi + 1] = load_row(@, l)]
       /\ input' = [input EXCEPT ![fi + 1].lines = Append(@, l)]
  /\ UNCHANGED <<call, variant, pc, paths, sample, requested, fi, eligibleIDs, si, out, exit_code>>

\* fgets returns NULL: end of the file
EndFile ==
  /\ pc = "rows"
  /\ NextFile
  /\ UNCHANGED <<call, variant, paths, sample, requested, fileStores, input, eligibleIDs, si,
                 out, exit_code>>

BuildEligible ==
  /\ pc = "eligible"
  /\ eligibleIDs' = build_eligible_ids(fileStores)
  /\ pc' = "check"
  /\ UNCHANGED <<call, variant, paths, sample, requested, fi, fileStores, input, si, out, exit_code>>

\* main: eligibleIDs.n == 0, return 1
EmptyExit_mut ==
  /\ pc = "check"
  /\ Len(eligibleIDs) = 0
  /\ pc' = "done"
  /\ exit_code' = 1
  /\ UNCHANGED <<call, variant, paths, sample, requested, fi, fileStores, input, eligibleIDs, si, out>>

\* main: eligibleIDs.n == 0, return 0
EmptyExit ==
  /\ pc = "check"
  /\ Len(eligibleIDs) = 0
  /\ pc' = "done"
  /\ exit_code' = 0
  /\ UNCHANGED <<call, variant, paths, sample, requested, fi, fileStores, input, eligibleIDs, si, out>>

\* main: cap the sample size, seed the generator
CapSample ==
  /\ pc = "check"
  /\ Len(eligibleIDs) # 0
  /\ sample' = IF SizeTGreater(sample, Len(eligibleIDs)) THEN Len(eligibleIDs) ELSE sample
  /\ si' = 0
  /\ pc' = "shuffle"
  /\ UNCHANGED <<call, variant, paths, requested, fi, fileStores, input, eligibleIDs, out, exit_code>>

\* a[j] is copied to a[i] and the old a[i] is lost
shuffle_swap_mut(a, i, j) == [a EXCEPT ![i + 1] = a[j + 1]]

\* tmp = a[i]; a[i] = a[j]; a[j] = tmp (i and j 0-based)
shuffle_swap(a, i, j) == [a EXCEPT ![i + 1] = a[j + 1], ![j + 1] = a[i + 1]]

\* one iteration of shuffle: j = i + rand() % (n - i), swap a[i] and a[j]
ShuffleStep ==
  /\ pc = "shuffle"
  /\ si < Len(eligibleIDs)
  /\ \E j \in si..(Len(eligibleIDs) - 1) :
       eligibleIDs' = shuffle_swap(eligibleIDs, si, j)
  /\ si' = si + 1
  /\ UNCHANGED <<call, variant, pc, paths, sample, requested, fi, fileStores, input, out, exit_code>>

\* main: fopen(outpath, "w") succeeds
OpenOut ==
  /\ pc = "shuffle"
  /\ si >= Len(eligibleIDs)
  /\ out' = [out EXCEPT !.open = TRUE]
  /\ pc' = "header"
  /\ UNCHANGED <<call, variant, paths, sample, requested, fi, fileStores, input, eligibleIDs, si,
                 exit_code>>

\* main: fopen(outpath, "w") fails, return 1
OpenOutFail ==
  /\ pc = "shuffle"
  /\ si >= Len(eligibleIDs)
  /\ pc' = "done"
  /\ exit_code' = 1
  /\ UNCHANGED <<call, variant, paths, sample, requested, fi, fileStores, input, eligibleIDs, si, out>>

WriteHeader ==
  /\ pc = "header"
  /\ out' = [out EXCEPT !.header = write_header(fileStores, IdName(fileStores))]
  /\ pc' = "write"
  /\ UNCHANGED <<call, variant, paths, sample, requested, fi, fileStores, input, eligibleIDs, si,
                 exit_code>>

\* the tables are released before the rows are written
WriteRows_mut ==
  /\ pc = "write"
  /\ fileStores' = [f \in 1..nfiles |-> ZeroStore]
  /\ out' = [out EXCEPT !.rows = write_rows(fileStores', eligibleIDs, sample)]
  /\ pc' = "done"
  /\ exit_code' = 0
  /\ UNCHANGED <<call, variant, paths, sample, requested, fi, input, eligibleIDs, si>>

\* write_rows, fclose, return 0
WriteRows ==
  /\ pc = "write"
  /\ out' = [out EXCEPT !.rows = write_rows(fileStores, eligibleIDs, sample)]
  /\ pc' = "done"
  /\ exit_code' = 0
  /\ UNCHANGED <<call, variant, paths, sample, requested, fi, fileStores, input, eligibleIDs, si>>

\* runs over files of header id,x with varying keys and sample sizes
Next ==
  \/ OpenFail
  \/ EmptyFile
  \/ OpenFile({H_id_x})
  \/ ReadRow(Lines, MaxRows)
  \/ EndFile
  \/ BuildEligible
  \/ EmptyExit
  \/ CapSample
  \/ ShuffleStep
  \/ OpenOut
  \/ OpenOutFail
  \/ WriteHeader
  \/ WriteRows

Spec == Init /\ [][Next]_vars

TypeOK ==
  /\ pc \in {"open", "rows", "eligible", "check", "shuffle", "header", "write", "done"}
  /\ fi \in 0..nfiles
  /\ Len(fileStores) = nfiles

\* ------------------------------------------------------------------------
\* Single-file ingestion runs with a richer set of data lines
\* ------------------------------------------------------------------------
MaxLoadRows == 3

LL_1_a == <<"1", ",", "a">>
LL_1_b == <<"1", ",", "b">>
LL_1_empty == <<"1", ",">>
LL_empty_a == <<",", "a">>
LL_2 == <<"2">>
LL_quoted == <<"1", ",", "\"", "a", ",", "b", "\"", "\r">>
LL_blank == <<"\r">>
LoadLines == {LL_1_a, LL_1_b, LL_1_empty, LL_empty_a, LL_2, LL_quoted, LL_blank}

InitLoad == InitWith({P_a}, {DEFAULT_SAMPLE}, 1)

NextLoad ==
  \/ OpenFail
  \/ EmptyFile
  \/ OpenFile(Headers)
  \/ ReadRow(LoadLines, MaxLoadRows)
  \/ EndFile
  \/ BuildEligible
  \/ EmptyExit
  \/ CapSample
  \/ ShuffleStep
  \/ OpenOut
  \/ OpenOutFail
  \/ WriteHeader
  \/ WriteRows

SpecLoad == InitLoad /\ [][NextLoad]_vars

\* ------------------------------------------------------------------------
\* Runs over files of varying path and header, every data line being 1,1
\* ------------------------------------------------------------------------
InitOut == InitWith(OutPaths, {DEFAULT_SAMPLE}, MaxFiles)

NextOut ==
  \/ OpenFail
  \/ EmptyFile
  \/ OpenFile(Headers)
  \/ ReadRow({L_1_1}, MaxRows)
  \/ EndFile
  \/ BuildEligible
  \/ EmptyExit
  \/ CapSample
  \/ ShuffleStep
  \/ OpenOut
  \/ OpenOutFail
  \/ WriteHeader
  \/ WriteRows

SpecOut == InitOut /\ [][NextOut]_vars

\* ------------------------------------------------------------------------
\* Notions used by the properties
\* ------------------------------------------------------------------------
Range(seq) == {seq[i] : i \in 1..Len(seq)}

NoDup(seq) == \A i, j \in 1..Len(seq) : i # j => seq[i] # seq[j]

\* the keys of table f (1-based file number)
Keys(f) == Range(fileStores[f].ids)

Primaries == {f \in 1..nfiles : ~fileStores[f].is_claim}
ClaimsFiles == {f \in 1..nfiles : fileStores[f].is_claim}

\* the eligible set has just been computed
Computed == pc = "check"

\* ------------------------------------------------------------------------
\* Eligibility
\* ------------------------------------------------------------------------

\* C1: with exactly two Primary tables and no Claims table, the eligible ids
\* are exactly the keys common to both tables, each once.
C1_Intersection ==
  (Computed /\ nfiles = 2 /\ Primaries = {1, 2})
    => /\ Range(eligibleIDs) = Keys(1) \cap Keys(2)
       /\ NoDup(eligibleIDs)

\* two primaries, the second is the probe base, one key of the first is dropped
C1_Witness ==
  /\ Computed /\ nfiles = 2 /\ Primaries = {1, 2}
  /\ BaseIndex(fileStores) = 1
  /\ eligibleIDs # <<>>
  /\ Keys(1) \ Keys(2) # {}

\* C2: with at least one Primary and at least one Claims table, a key is
\* eligible iff it is in every Primary table and in some Claims table.
C2_ClaimsGate ==
  (Computed /\ Primaries # {} /\ ClaimsFiles # {})
    => Range(eligibleIDs) =
         {k \in UNION {Keys(f) : f \in 1..nfiles} :
            /\ \A f \in Primaries : k \in Keys(f)
            /\ \E f \in ClaimsFiles : k \in Keys(f)}

\* a primary key is kept because of the claims table, another one is dropped
C2_Witness ==
  /\ Computed /\ Primaries # {} /\ ClaimsFiles # {}
  /\ eligibleIDs # <<>>
  /\ \E f \in Primaries : Keys(f) \ Range(eligibleIDs) # {}

\* C3: without a Primary table the eligible ids are the union of the keys of
\* the Claims tables, each key once.
C3_ClaimsOnly ==
  (Computed /\ Primaries = {})
    => /\ Range(eligibleIDs) = UNION {Keys(f) : f \in ClaimsFiles}
       /\ NoDup(eligibleIDs)

\* two claims tables sharing a key, each holding a key the other lacks or more
C3_Witness ==
  /\ Computed /\ Primaries = {} /\ nfiles = 2
  /\ Keys(1) \cap Keys(2) # {}
  /\ Cardinality(Keys(1) \cup Keys(2)) >= 2

\* ------------------------------------------------------------------------
\* Ingestion
\* ------------------------------------------------------------------------
\* file f has read its header
Loaded(f) == input[f].header # NULL

\* the data rows of file f as field sequences, blank lines left out
RECURSIVE RowsOf(_, _)
RowsOf(f, i) ==
  IF i > Len(input[f].lines) THEN <<>>
  ELSE LET line == trim_eol(input[f].lines[i]) IN
    IF line = <<>> THEN RowsOf(f, i + 1)
    ELSE <<parse_delim_line(line, fileStores[f].delim)>> \o RowsOf(f, i + 1)

\* the rows of file f that have a field in the key column
KeyedRows(f) ==
  SelectSeq(RowsOf(f, 1), LAMBDA row : fileStores[f].id_col < Len(row))

KeyOf(f, row) == row[fileStores[f].id_col + 1]

\* value of header column c (0-based) in a data row, empty when missing
ValueOf(row, c) == IF c < Len(row) THEN row[c + 1] ELSE <<>>

RECURSIVE JoinNonEmpty(_, _, _, _)
\* the non-empty values of column c in the rows of key, joined by " || "
JoinNonEmpty(rows, f, key, c) ==
  IF rows = <<>> THEN <<>>
  ELSE LET v == IF KeyOf(f, rows[Len(rows)]) = key
                THEN ValueOf(rows[Len(rows)], c) ELSE <<>>
           before == JoinNonEmpty(SubSeq(rows, 1, Len(rows) - 1), f, key, c)
       IN IF v = <<>> THEN before
          ELSE IF before = <<>> THEN v
          ELSE before \o <<" ", "|", "|", " ">> \o v

\* the stored text of header column c (0-based, not the key column) for key
StoredCell(f, key, c) ==
  LET r == CHOOSE x \in 1..Len(fileStores[f].ids) : fileStores[f].ids[x] = key
      k == IF c < fileStores[f].id_col THEN c + 1 ELSE c
  IN CellText(fileStores[f].cells[r][k])

NonKeyCols(f) == {c \in 0..(fileStores[f].ncols - 1) : c # fileStores[f].id_col}

\* C4: every stored cell is the " || "-join, in encounter order, of the
\* non-empty values its column has in the data rows carrying its key; the
\* table holds exactly the keys carried by some data row.
C4_MergedCells ==
  \A f \in 1..nfiles : Loaded(f) =>
    /\ Keys(f) = {KeyOf(f, KeyedRows(f)[i]) : i \in 1..Len(KeyedRows(f))}
    /\ \A key \in Keys(f) : \A c \in NonKeyCols(f) :
         StoredCell(f, key, c) = JoinNonEmpty(KeyedRows(f), f, key, c)

\* rows 1,a then 1,<empty> then 1,b under header id,x give the cell a || b
C4_Witness ==
  /\ Loaded(1)
  /\ input[1].header = Ptr(H_id_x)
  /\ input[1].lines = <<LL_1_a, LL_1_empty, LL_1_b>>
  /\ fileStores[1].cells = << <<Ptr(<<"a", " ", "|", "|", " ", "b">>)>> >>

\* C5: no table, eligible list or output row ever holds the empty key.
C5_NoEmptyKey ==
  /\ \A f \in 1..nfiles :
       <<>> \notin Keys(f) /\ ~HasKey(fileStores[f].id_to_idx, <<>>)
  /\ <<>> \notin Range(eligibleIDs)
  /\ \A r \in 1..Len(out.rows) : out.rows[r][1] # <<>>

\* ------------------------------------------------------------------------
\* Sampling and output
\* ------------------------------------------------------------------------
\* the run ended normally
Finished == pc = "done" /\ exit_code = 0

HeaderWritten == out.header # <<>>

RowKeys == [r \in 1..Len(out.rows) |-> out.rows[r][1]]

\* C6 as stated: a finished run that opened the output has written
\* min(N, M) data rows, N the requested size and M the number of eligible keys,
\* and no key twice.
C6_MinRows ==
  (Finished /\ out.open)
    => /\ Len(out.rows) = Min(requested, Len(eligibleIDs))
       /\ NoDup(RowKeys)

\* C6 amended: a finished run has written min(N, M) data rows when N >= 0 and
\* M data rows when N < 0, and no key twice.
C6_MinRowsNonNegative ==
  Finished
    => /\ Len(out.rows) = IF requested < 0 THEN Len(eligibleIDs)
                          ELSE Min(requested, Len(eligibleIDs))
       /\ NoDup(RowKeys)

\* one row written out of at least two eligible keys
C6_Witness ==
  /\ Finished /\ out.open
  /\ requested = 1
  /\ Len(eligibleIDs) >= 2
  /\ Len(out.rows) = 1

\* C7: the names of the written header are pairwise distinct.
C7_HeaderDistinct == NoDup(out.header)

\* the header slots after the key name: file f (1-based) and column c
\* (0-based), files in load order, non-key columns in header order
RECURSIVE ColsFrom(_, _)
ColsFrom(f, c) ==
  IF c >= fileStores[f].ncols THEN <<>>
  ELSE IF c = fileStores[f].id_col THEN ColsFrom(f, c + 1)
  ELSE <<[f |-> f, c |-> c]>> \o ColsFrom(f, c + 1)

RECURSIVE SlotsFrom(_)
SlotsFrom(f) == IF f > nfiles THEN <<>> ELSE ColsFrom(f, 0) \o SlotsFrom(f + 1)

Slots == SlotsFrom(1)

ColName(sl) == fileStores[sl.f].cols[sl.c + 1]

\* the name of a slot before collision renaming
BaseName(sl) ==
  IF fileStores[sl.f].is_claim
  THEN ColName(sl) \o <<"_">> \o DecStr(fileStores[sl.f].claim_year)
  ELSE ColName(sl)

Stem(f) == file_stem(paths[f], STEM_BUF_HEADER)

Renamed(sl) == BaseName(sl) \o <<"[">> \o Stem(sl.f) \o <<"]">>

\* C8 as stated: when two files, neither claims-tagged, carry a non-key
\* column of the same name, the header has the name unchanged at the first
\* such column and the name followed by [stem] at the column of the later file.
C8_FirstUnchanged ==
  HeaderWritten =>
    \A p, q \in 1..Len(Slots) :
      (/\ Slots[p].f < Slots[q].f
       /\ ~fileStores[Slots[p].f].is_claim /\ ~fileStores[Slots[q].f].is_claim
       /\ ColName(Slots[p]) = ColName(Slots[q])
       /\ \A o \in 1..(p - 1) : ColName(Slots[o]) # ColName(Slots[p]))
      => /\ out.header[p + 1] = ColName(Slots[p])
         /\ out.header[q + 1] = Renamed(Slots[q])

\* C8 amended: a header entry is its name unchanged when that name does not
\* occur earlier in the header (the key name counts), and the name followed
\* by [stem of its file] otherwise; so of two files, neither claims-tagged,
\* with a non-key column of the same name, the later one gets the bracketed
\* stem, and the first one is unchanged if the name is not already in the
\* header.
C8_FirstUnusedUnchanged ==
  HeaderWritten =>
    /\ \A p \in 1..Len(Slots) :
         out.header[p + 1] =
           IF \E o \in 1..p : out.header[o] = BaseName(Slots[p])
           THEN Renamed(Slots[p]) ELSE BaseName(Slots[p])
    /\ \A p, q \in 1..Len(Slots) :
         (/\ Slots[p].f < Slots[q].f
          /\ ~fileStores[Slots[p].f].is_claim /\ ~fileStores[Slots[q].f].is_claim
          /\ ColName(Slots[p]) = ColName(Slots[q]))
         => /\ out.header[q + 1] = Renamed(Slots[q])
            /\ (\A o \in 1..p : out.header[o] # ColName(Slots[p]))
                 => out.header[p + 1] = ColName(Slots[p])

\* a.csv then b.csv, both with header id,x: the header is id, x, x[b]
C8_Witness ==
  /\ HeaderWritten
  /\ paths = <<P_a, P_b>>
  /\ input[1].header = Ptr(H_id_x) /\ input[2].header = Ptr(H_id_x)
  /\ out.header = << <<"i", "d">>, <<"x">>, <<"x", "[", "b", "]">> >>

\* C9: the header is the key column name of the first file (the fallback
\* literal if that file has no columns), then one entry per non-key column,
\* files in load order and columns in header order; a column of a claims file
\* carries _<year>, and collision renaming only appends to that name.
C9_HeaderLayout ==
  HeaderWritten =>
    /\ out.header[1] = IF fileStores[1].ncols > 0
                       THEN fileStores[1].cols[fileStores[1].id_col + 1]
                       ELSE FALLBACK_ID_NAME
    /\ Len(out.header) = 1 + Len(Slots)
    /\ \A p \in 1..Len(Slots) :
         out.header[p + 1] \in {BaseName(Slots[p]), Renamed(Slots[p])}

\* a.csv with header y,patent_id then d/Claims_2001.tsv with header id,x:
\* the header is patent_id, y, x_2001
C9_Witness ==
  /\ HeaderWritten
  /\ paths = <<P_a, P_claims>>
  /\ input[1].header = Ptr(H_y_pid) /\ input[2].header = Ptr(H_id_x)
  /\ out.header = << <<"p", "a", "t", "e", "n", "t", "_", "i", "d">>, <<"y">>,
                      <<"x", "_", "2", "0", "0", "1">> >>

RECURSIVE WidthUpTo(_)
\* number of cells of the key and of the files 1..f
WidthUpTo(f) == IF f = 0 THEN 1 ELSE WidthUpTo(f - 1) + (fileStores[f].ncols - 1)

\* the cells of file f in a written row
Segment(row, f) == SubSeq(row, WidthUpTo(f - 1) + 1, WidthUpTo(f))

\* C10: every written row has as many cells as the header, 1 + the sum of
\* (ncols - 1) over the files; the cells of a file are its stored cells in
\* column order when it has the key and ncols - 1 empty cells otherwise.
C10_RowWidth ==
  (Finished /\ out.open) =>
    /\ Len(out.header) = WidthUpTo(nfiles)
    /\ \A r \in 1..Len(out.rows) :
         /\ Len(out.rows[r]) = WidthUpTo(nfiles)
         /\ \A f \in 1..nfiles :
              LET key == out.rows[r][1]
                  seg == Segment(out.rows[r], f)
              IN /\ Len(seg) = fileStores[f].ncols - 1
                 /\ IF key \in Keys(f)
                    THEN \A c \in NonKeyCols(f) :
                           seg[IF c < fileStores[f].id_col THEN c + 1 ELSE c]
                             = StoredCell(f, key, c)
                    ELSE \A k \in 1..Len(seg) : seg[k] = <<>>

\* a row whose key is missing from a three-column file, next to a file whose
\* row came from a data line shorter than its header
C10_Witness ==
  /\ Finished /\ out.open /\ nfiles = 2
  /\ \E r \in 1..Len(out.rows) : \E f, g \in 1..nfiles :
       /\ out.rows[r][1] \notin Keys(f)
       /\ fileStores[f].ncols = 3
       /\ out.rows[r][1] \in Keys(g)
       /\ fileStores[g].ncols = 3
       /\ input[g].lines = <<L_1_1>>

\* ------------------------------------------------------------------------
\* The quoting writer (code3.c)
\* ------------------------------------------------------------------------
QUOTE == "\""

RECURSIVE EscapeFrom(_, _)
\* the loop that writes s with every quote character written twice
EscapeFrom(s, p) ==
  IF p > Len(s) THEN <<>>
  ELSE (IF s[p] = QUOTE THEN <<QUOTE, s[p]>> ELSE <<s[p]>>) \o EscapeFrom(s, p + 1)

\* the quote characters of s are written once
print_csv_field_mut(s) ==
  LET need_quotes == \E p \in 1..Len(s) : s[p] \in {",", QUOTE, "\n", "\r"}
  IN IF ~need_quotes THEN s ELSE <<QUOTE>> \o s \o <<QUOTE>>

\* the characters print_csv_field writes for the non-NULL string s
print_csv_field(s) ==
  LET need_quotes == \E p \in 1..Len(s) : s[p] \in {",", QUOTE, "\n", "\r"}
  IN IF ~need_quotes THEN s ELSE <<QUOTE>> \o EscapeFrom(s, 1) \o <<QUOTE>>

\* ------------------------------------------------------------------------
\* C11
\* ------------------------------------------------------------------------
\* the text of a field under the quoting rule: wrapped and with doubled
\* quotes when it contains the output delimiter, a quote or a newline
QuotedForm(s) ==
  IF \E p \in 1..Len(s) : s[p] \in {OUTPUT_DELIM, QUOTE, "\n"}
  THEN <<QUOTE>> \o EscapeFrom(s, 1) \o <<QUOTE>>
  ELSE s

\* the fields of output row r: the key, then the cells of every file
FieldsOfRow(r) == RowFrom(fileStores, eligibleIDs[r], 0, <<eligibleIDs[r]>>)

\* C11: the text written for every field of every output row, key cells and
\* non-key cells alike, is the field wrapped in double quotes with its quotes
\* doubled if and only if the field contains the output delimiter, a quote
\* character or a newline, and is the field itself otherwise.
C11_FieldsQuoted ==
  (Finished /\ out.open) =>
    \A r \in 1..Len(out.rows) :
      /\ Len(out.rows[r]) = Len(FieldsOfRow(r))
      /\ \A k \in 1..Len(out.rows[r]) :
           out.rows[r][k] = QuotedForm(FieldsOfRow(r)[k])

\* ------------------------------------------------------------------------
\* Single functions applied to bounded inputs
\* ------------------------------------------------------------------------
MaxStrLen == 3
MaxLineLen == 5
MaxCols == 3

StringsUpTo(alphabet, n) == UNION {[1..k -> alphabet] : k \in 0..n}

\* field values handed to the quoting writer
FieldStrings == StringsUpTo({"a", ",", QUOTE, "\n", "\r"}, MaxStrLen)

\* lines handed to the parser, end of line already trimmed
ParseLines == StringsUpTo({"a", ",", "\t", QUOTE}, MaxLineLen)

Delims == {",", "\t"}

N_x == <<"x">>
N_patent == <<"p", "a", "t", "e", "n", "t">>
N_App_No == <<"A", "p", "p", "_", "N", "u", "m", "b", "e", "r">>
N_Patent_ID == <<"P", "a", "t", "e", "n", "t", "_", "I", "D">>
N_Application_Number ==
  <<"A", "p", "p", "l", "i", "c", "a", "t", "i", "o", "n", "_",
    "N", "u", "m", "b", "e", "r">>
ColNames == {N_x, N_patent, N_App_No, N_Patent_ID, N_Application_Number}

\* headers handed to detect_id_col: ncols > 0 is not required by the function
ColLists == StringsUpTo(ColNames, MaxCols)

P_claims_2001 == <<"c", "l", "a", "i", "m", "s", "_", "2", "0", "0", "1", ".", "c", "s", "v">>
P_claims_20 == <<"c", "l", "a", "i", "m", "s", "_", "2", "0", ".", "c", "s", "v">>
P_claims_201x == <<"c", "l", "a", "i", "m", "s", "_", "2", "0", "1", "x", ".", "c", "s", "v">>
P_claims_20015 == <<"c", "l", "a", "i", "m", "s", "_", "2", "0", "0", "1", "5", ".", "c", "s", "v">>
P_claims_0000 == <<"c", "l", "a", "i", "m", "s", "_", "0", "0", "0", "0", ".", "c", "s", "v">>
P_claims_ == <<"c", "l", "a", "i", "m", "s", "_", ".", "c", "s", "v">>
P_my_claims == <<"m", "y", "_", "C", "L", "A", "I", "M", "S", "_", "1", "9", "9", "9">>
P_claims_twice ==
  <<"c", "l", "a", "i", "m", "s", "_", "x", "_", "c", "l", "a", "i", "m", "s", "_",
    "2", "0", "0", "1">>
NamedPaths ==
  {P_a, P_claims, P_claims_2001, P_claims_20, P_claims_201x, P_claims_20015,
   P_claims_0000, P_claims_, P_my_claims, P_claims_twice}

\* the calls under test, before they are made
Calls ==
  {[fn |-> "print_csv_field", s |-> s, stage |-> "start", text |-> <<>>, fields |-> <<>>]
     : s \in FieldStrings}
  \cup {[fn |-> "parse_delim_line", line |-> l, delim |-> d, stage |-> "start",
         fields |-> <<>>] : l \in ParseLines, d \in Delims}
  \cup {[fn |-> "detect_id_col", cols |-> c, stage |-> "start", ret |-> 0]
          : c \in ColLists}
  \cup {[fn |-> "parse_claim_year_from_name", path |-> p, stage |-> "start",
         claim_year |-> 0, is_claim |-> FALSE] : p \in NamedPaths}

InitFn ==
  /\ pc = "call"
  /\ paths = <<>>
  /\ sample = DEFAULT_SAMPLE
  /\ requested = sample
  /\ fi = 0
  /\ fileStores = <<>>
  /\ input = <<>>
  /\ eligibleIDs = <<>>
  /\ si = 0
  /\ out = [open |-> FALSE, header |-> <<>>, rows |-> <<>>]
  /\ exit_code = -1
  /\ call \in Calls
  /\ variant = NoVariant

Idle == UNCHANGED <<pc, paths, sample, requested, fi, fileStores, input, eligibleIDs,
                    si, out, exit_code, variant>>

\* the field s is written by print_csv_field
WriteField ==
  /\ call.fn = "print_csv_field" /\ call.stage = "start"
  /\ call' = [call EXCEPT !.text = print_csv_field(call.s), !.stage = "written"]
  /\ Idle

\* the written text is parsed as a comma-delimited line
ParseWritten ==
  /\ call.fn = "print_csv_field" /\ call.stage = "written"
  /\ call' = [call EXCEPT !.fields = parse_delim_line(call.text, ","),
                          !.stage = "parsed"]
  /\ Idle

ParseLine ==
  /\ call.fn = "parse_delim_line" /\ call.stage = "start"
  /\ call' = [call EXCEPT !.fields = parse_delim_line(call.line, call.delim),
                          !.stage = "returned"]
  /\ Idle

DetectIdCol ==
  /\ call.fn = "detect_id_col" /\ call.stage = "start"
  /\ call' = [call EXCEPT !.ret = detect_id_col(call.cols), !.stage = "returned"]
  /\ Idle

\* load_file: claim_year = parse_claim_year_from_name(path), is_claim = claim_year > 0
Categorize ==
  /\ call.fn = "parse_claim_year_from_name" /\ call.stage = "start"
  /\ LET year == parse_claim_year_from_name(call.path)
     IN call' = [call EXCEPT !.claim_year = year, !.is_claim = (year > 0),
                             !.stage = "returned"]
  /\ Idle

NextFn ==
  \/ WriteField
  \/ ParseWritten
  \/ ParseLine
  \/ DetectIdCol
  \/ Categorize

SpecFn == InitFn /\ [][NextFn]_vars

\* ------------------------------------------------------------------------
\* C12
\* ------------------------------------------------------------------------
HasSpecial(s) == \E p \in 1..Len(s) : s[p] \in {",", QUOTE, "\n"}

QuotesBefore(line, p) == Cardinality({q \in 1..(p - 1) : line[q] = QUOTE})

\* position p is met outside quoted mode: the quotes before it pair up
Outside(line, p) == QuotesBefore(line, p) % 2 = 0

\* the positions of line holding a delimiter met outside quoted mode
OutsideDelims(line, delim) ==
  {p \in 1..Len(line) : line[p] = delim /\ Outside(line, p)}

Returned(fn) == call.fn = fn /\ call.stage = "returned"

\* C13: parse_delim_line returns, for every line and delimiter, one field more
\* than the line has delimiter characters outside quoted mode: at least one
\* field, one empty field for the empty line, and an empty last field for a
\* line that ends in a delimiter.
C13_FieldCount ==
  Returned("parse_delim_line") =>
    LET line == call.line
        n == Len(line)
    IN /\ Len(call.fields) = Cardinality(OutsideDelims(line, call.delim)) + 1
       /\ Len(call.fields) >= 1
       /\ (n = 0) => (call.fields = <<(<<>>)>>)
       /\ (n > 0 /\ n \in OutsideDelims(line, call.delim))
            => (call.fields[Len(call.fields)] = <<>>)

\* a line with one comma inside quotes and one, the last character, outside
C13_Witness ==
  /\ Returned("parse_delim_line")
  /\ call.line = <<QUOTE, ",", QUOTE, ",">>
  /\ call.delim = ","
  /\ call.fields = <<(<<",">>), (<<>>)>>

\* ------------------------------------------------------------------------
\* C14
\* ------------------------------------------------------------------------
\* the character at position p becomes part of a field: a quote does only as
\* the second of two consecutive quotes met in quoted mode, a delimiter only
\* in quoted mode, any other character always
Literal(line, delim, p) ==
  IF line[p] = QUOTE
  THEN p > 1 /\ line[p - 1] = QUOTE /\ Outside(line, p)
  ELSE ~(line[p] = delim /\ Outside(line, p))

\* the k-th smallest member of a set of positions
Nth(S, k) == CHOOSE p \in S : Cardinality({q \in S : q < p}) = k - 1

\* the literal characters of line strictly between positions lo and hi
Between(line, delim, lo, hi) ==
  LET L == {p \in (lo + 1)..(hi - 1) : Literal(line, delim, p)}
  IN [i \in 1..Cardinality(L) |-> line[Nth(L, i)]]

\* the fields of line: the literal characters between consecutive delimiters
\* met outside quoted mode, the end of line closing the last field
Decoded(line, delim) ==
  LET seps == OutsideDelims(line, delim)
      n == Cardinality(seps)
      edge(k) == IF k = 0 THEN 0 ELSE IF k > n THEN Len(line) + 1 ELSE Nth(seps, k)
  IN [k \in 1..(n + 1) |-> Between(line, delim, edge(k - 1), edge(k))]

\* C14: parse_delim_line drops a quote that enters or leaves quoted mode,
\* copies a delimiter met in quoted mode, decodes two consecutive quotes in
\* quoted mode to one quote, and emits the text accumulated under a quote
\* still open at the end of the line as the last field.
C14_QuoteDecoding ==
  Returned("parse_delim_line") =>
    /\ call.fields = Decoded(call.line, call.delim)
    /\ (~Outside(call.line, Len(call.line) + 1) /\ OutsideDelims(call.line, call.delim) = {})
         => Len(call.fields) = 1

\* a quoted field holding a comma and a doubled quote, its quote still open
\* at the end of the line
C14_Witness ==
  /\ Returned("parse_delim_line")
  /\ call.line = <<QUOTE, ",", QUOTE, QUOTE>>
  /\ call.delim = ","
  /\ call.fields = <<(<<",", QUOTE>>)>>

\* ------------------------------------------------------------------------
\* C15
\* ------------------------------------------------------------------------
SetMin(S) == CHOOSE x \in S : \A y \in S : x <= y

\* the 0-based indexes of the columns whose lowercased name holds every
\* string of all and, when any is not empty, at least one string of any
Matching(cols, all, any) ==
  {i \in 0..(Len(cols) - 1) :
     LET name == tolower_inplace(cols[i + 1])
     IN /\ \A w \in all : Contains(name, w)
        /\ (any = {} \/ \E w \in any : Contains(name, w))}

TierA(cols) == Matching(cols, {S_application_number}, {})
TierB(cols) == Matching(cols, {S_patent}, {S_number, S_id})
TierC(cols) == Matching(cols, {S_app, S_number}, {})

\* C15: detect_id_col returns the lowest index of a column naming
\* application_number if there is one, otherwise the lowest index of a column
\* naming patent and number or id, otherwise the lowest index of a column
\* naming app and number, otherwise 0; the tier decides before the index.
C15_KeyColumnPriority ==
  Returned("detect_id_col") =>
    call.ret = (IF TierA(call.cols) # {} THEN SetMin(TierA(call.cols))
                ELSE IF TierB(call.cols) # {} THEN SetMin(TierB(call.cols))
                ELSE IF TierC(call.cols) # {} THEN SetMin(TierC(call.cols))
                ELSE 0)

\* the three tiers in reverse order of priority: the last column is chosen
C15_Witness ==
  /\ Returned("detect_id_col")
  /\ call.cols = <<N_App_No, N_Patent_ID, N_Application_Number>>
  /\ call.ret = 2

\* ------------------------------------------------------------------------
\* C16
\* ------------------------------------------------------------------------
\* the positions of stem where claims_ starts and four digits follow
ClaimsYearAt(stem) ==
  {at \in 1..Len(stem) :
     /\ at + 10 <= Len(stem)
     /\ SubSeq(stem, at, at + 6) = S_claims_
     /\ \A k \in 7..10 : isdigit(stem[at + k])}

\* the number written by the four digits that follow claims_ at position at
FourDigits(stem, at) ==
  1000 * DigitVal(stem[at + 7]) + 100 * DigitVal(stem[at + 8])
    + 10 * DigitVal(stem[at + 9]) + DigitVal(stem[at + 10])

\* C16: a file is a claims file exactly when its lowercased stem holds claims_
\* followed by four digits, and its year is then the number of those digits;
\* any other file, one with fewer than four digits after claims_ included, is
\* a primary file with year 0.
C16_ClaimsCategory ==
  Returned("parse_claim_year_from_name") =>
    LET stem == tolower_inplace(file_stem(call.path, STEM_BUF_CLAIM))
    IN IF ClaimsYearAt(stem) # {}
       THEN /\ call.is_claim
            /\ \E at \in ClaimsYearAt(stem) : call.claim_year = FourDigits(stem, at)
       ELSE /\ ~call.is_claim
            /\ call.claim_year = 0

\* ------------------------------------------------------------------------
\* One file whose header and data lines hold tabs and commas
\* ------------------------------------------------------------------------
H_id_tab_x == <<"i", "d", "\t", "x">>
H_id_tab_x_y == <<"i", "d", "\t", "x", ",", "y">>
H_id == <<"i", "d">>
DelimHeaders == {H_id_x, H_id_tab_x, H_id_tab_x_y, H_id}

DL_1_tab_a == <<"1", "\t", "a">>
DL_1_a == <<"1", ",", "a">>
DL_2_tab_b_c == <<"2", "\t", "b", ",", "c", "\r", "\n">>
DelimLines == {DL_1_tab_a, DL_1_a, DL_2_tab_b_c}

InitDelim == InitWith({P_a}, {DEFAULT_SAMPLE}, 1)

NextDelim ==
  \/ OpenFail
  \/ EmptyFile
  \/ OpenFile(DelimHeaders)
  \/ ReadRow(DelimLines, MaxLoadRows)
  \/ EndFile
  \/ BuildEligible
  \/ EmptyExit
  \/ CapSample
  \/ ShuffleStep
  \/ OpenOut
  \/ OpenOutFail
  \/ WriteHeader
  \/ WriteRows

SpecDelim == InitDelim /\ [][NextDelim]_vars

\* ------------------------------------------------------------------------
\* C17
\* ------------------------------------------------------------------------
HasChar(line, c) == \E i \in 1..Len(line) : line[i] = c

\* the delimiter the raw header line calls for
DelimOf(header) ==
  IF HasChar(header, "\t") /\ ~HasChar(header, ",") THEN "\t" ELSE ","

\* the keys of the data lines read so far in file f, each line parsed with
\* delimiter d; blank lines and lines too short to hold the key column have none
KeysWith(f, d) ==
  LET rows == [i \in 1..Len(input[f].lines) |->
                 parse_delim_line(trim_eol(input[f].lines[i]), d)]
  IN {rows[i][fileStores[f].id_col + 1] :
        i \in {j \in 1..Len(rows) : /\ trim_eol(input[f].lines[j]) # <<>>
                                    /\ fileStores[f].id_col < Len(rows[j])}}

\* C17: the delimiter of a file is the tab exactly when its raw header line
\* holds a tab and no comma, and the comma otherwise; the header is parsed
\* with it, and it stays the same while the data lines are read, each of them
\* parsed with it.
C17_Delimiter ==
  \A f \in 1..nfiles : Loaded(f) =>
    LET d == DelimOf(input[f].header[1])
    IN /\ fileStores[f].delim = d
       /\ fileStores[f].cols = parse_delim_line(trim_eol(input[f].header[1]), d)
       /\ Keys(f) = KeysWith(f, d)

\* a tab-delimited file whose second data line holds a comma and no tab
C17_Witness ==
  /\ Loaded(1)
  /\ input[1].header = Ptr(H_id_tab_x)
  /\ input[1].lines = <<DL_1_tab_a, DL_1_a, DL_2_tab_b_c>>
  /\ fileStores[1].delim = "\t"
  /\ fileStores[1].ids = <<(<<"1">>), DL_1_a, (<<"2">>)>>

\* ------------------------------------------------------------------------
\* C18
\* ------------------------------------------------------------------------
\* C18: in a run with several input files, a file that cannot be opened does
\* not end the run: the run ends only after every input file has been taken
\* up, the file that failed to open being passed over.
C18_OpenFailureSkipped ==
  (nfiles > 1 /\ pc = "done") => fi = nfiles

\* ------------------------------------------------------------------------
\* C19
\* ------------------------------------------------------------------------
\* C19: a run that has loaded every file and found no eligible key ends with
\* exit code 0 and without a data row; the output file is not even opened, so
\* that a path that cannot be opened for writing makes no difference.
C19_EmptyEligibleExit ==
  (pc = "done" /\ fi = nfiles /\ eligibleIDs = <<>>) =>
    /\ exit_code = 0
    /\ out.rows = <<>>
    /\ out.header = <<>>
    /\ ~out.open

\* two primary files, each with a key the other one lacks
C19_Witness ==
  /\ pc = "done" /\ fi = nfiles /\ eligibleIDs = <<>>
  /\ nfiles = 2
  /\ Primaries = {1, 2}
  /\ Keys(1) # {} /\ Keys(2) # {}
  /\ exit_code = 0

\* ------------------------------------------------------------------------
\* C20
\* ------------------------------------------------------------------------
\* a step of the load phase: a table, the lines read or the file index change
LoadStep == fileStores' # fileStores \/ input' # input \/ fi' # fi

\* a step of the selection: the sample size or the order of the keys change
SelectStep == sample' # sample \/ si' # si

\* a step that opens the output or writes to it
OutputStep == out' # out

NothingWritten == ~out.open /\ out.header = <<>> /\ out.rows = <<>>

\* C20: the eligible set is computed only after every input file has been
\* loaded and no file is loaded afterwards; the sample is selected only after
\* the eligible set is complete, which the selection only reorders; the output
\* is opened and written only after the selection is final; and nothing is
\* written while a file is loading or the eligible set is being built.
C20_PhaseOrder ==
  [][ /\ LoadStep => /\ pc \in {"open", "rows"}
                     /\ eligibleIDs = <<>> /\ eligibleIDs' = <<>>
                     /\ ~SelectStep /\ ~OutputStep
      /\ (pc = "eligible" \/ pc' = "eligible") => fi' = nfiles
      /\ (eligibleIDs' # eligibleIDs) => /\ fi = nfiles
                                         /\ pc \in {"eligible", "shuffle"}
                                         /\ ~OutputStep
      /\ (pc # "eligible") => Range(eligibleIDs') = Range(eligibleIDs)
      /\ SelectStep => /\ pc \in {"check", "shuffle"}
                       /\ fi = nfiles
                       /\ ~OutputStep
      /\ OutputStep => /\ pc \in {"shuffle", "header", "write"}
                       /\ fi = nfiles
                       /\ si >= Len(eligibleIDs)
                       /\ eligibleIDs' = eligibleIDs
                       /\ ~SelectStep /\ ~LoadStep
      /\ out.open => UNCHANGED <<eligibleIDs, sample, si, fileStores>>
      /\ (pc \in {"open", "rows", "eligible", "check"}) => NothingWritten /\ ~OutputStep
    ]_vars

\* a finished run over two files in which one of two eligible keys was written
C20_Witness ==
  /\ Finished /\ out.open
  /\ nfiles = 2
  /\ Len(eligibleIDs) = 2 /\ si = 2
  /\ out.header # <<>>
  /\ Len(out.rows) = 1

\* ------------------------------------------------------------------------
\* The reservoir line sampler (code4.c)
\* ------------------------------------------------------------------------
DEFAULT_SAMPLE_SIZE == 10000
MaxStream == 4
MaxReservoir == 2

\* main of merger2.c and the functions under test are at rest
MainParked ==
  /\ pc = "variant"
  /\ paths = <<>>
  /\ sample = DEFAULT_SAMPLE
  /\ requested = sample
  /\ fi = 0
  /\ fileStores = <<>>
  /\ input = <<>>
  /\ eligibleIDs = <<>>
  /\ si = 0
  /\ out = [open |-> FALSE, header |-> <<>>, rows |-> <<>>]
  /\ exit_code = -1
  /\ call = NoCall

Parked == UNCHANGED <<pc, paths, sample, requested, fi, fileStores, input, eligibleIDs,
                      si, out, exit_code, call>>

\* the lines getline can return: the text of the header may come again as data
StreamLines == {<<"h", "\n">>, <<"a", "\n">>, <<"b">>}

\* sample_size: the default or a positive argv[4]
SampleSizes == (1..MaxReservoir) \cup {DEFAULT_SAMPLE_SIZE}

\* main of code4.c at the entry of the read loop, the three files open;
\* full is the text written to the full output, one entry per line, samp the
\* text written to the sample output; from is history: the number of the data
\* line each slot of the reservoir holds
InitReservoir ==
  /\ MainParked
  /\ \E k \in SampleSizes :
       variant = [prog |-> "code4", at |-> "read", sample_size |-> k,
                  header_line |-> NULL, sample_lines |-> <<>>, sample_count |-> 0,
                  line_index |-> 0, r |-> -1, full |-> <<>>, samp |-> <<>>,
                  from |-> <<>>, ret |-> -1]

\* every data line past the first sample_size replaces slot r % sample_size
reservoir_step_mut(v, line, r) ==
  LET i == v.line_index + 1 IN
  IF v.sample_count < v.sample_size
  THEN [v EXCEPT !.line_index = i,
                 !.sample_lines = Append(@, line),
                 !.sample_count = @ + 1,
                 !.from = Append(@, i)]
  ELSE [v EXCEPT !.line_index = i, !.r = r,
                 !.sample_lines[(r % v.sample_size) + 1] = line,
                 !.from[(r % v.sample_size) + 1] = i]

\* the body of the read loop for a data line, r the value of rand() % line_index
reservoir_step(v, line, r) ==
  LET i == v.line_index + 1 IN
  IF v.sample_count < v.sample_size
  THEN [v EXCEPT !.line_index = i,
                 !.sample_lines = Append(@, line),
                 !.sample_count = @ + 1,
                 !.from = Append(@, i)]
  ELSE IF r < v.sample_size
       THEN [v EXCEPT !.line_index = i, !.r = r,
                      !.sample_lines[r + 1] = line,
                      !.from[r + 1] = i]
       ELSE [v EXCEPT !.line_index = i, !.r = r]

\* getline returns the first line: it is written to full and kept as header
ReadHeaderLine ==
  /\ variant.prog = "code4" /\ variant.at = "read"
  /\ variant.header_line = NULL
  /\ Len(variant.full) < MaxStream
  /\ \E l \in StreamLines :
       variant' = [variant EXCEPT !.full = Append(@, l), !.header_line = Ptr(l)]
  /\ Parked

\* getline returns a data line: it is written to full and offered to the reservoir
ReadDataLine ==
  /\ variant.prog = "code4" /\ variant.at = "read"
  /\ variant.header_line # NULL
  /\ Len(variant.full) < MaxStream
  /\ \E l \in StreamLines : \E r \in 0..variant.line_index :
       /\ (variant.sample_count < variant.sample_size) => (r = 0)
       /\ variant' = reservoir_step([variant EXCEPT !.full = Append(@, l)], l, r)
  /\ Parked

\* getline returns -1
EndOfStream ==
  /\ variant.prog = "code4" /\ variant.at = "read"
  /\ variant' = [variant EXCEPT !.at = "write"]
  /\ Parked

\* the header and the reservoir are written to the sample output, return 0
WriteSample ==
  /\ variant.prog = "code4" /\ variant.at = "write"
  /\ variant' = [variant EXCEPT
       !.samp = (IF variant.header_line # NULL THEN variant.header_line ELSE <<>>)
                  \o variant.sample_lines,
       !.at = "done", !.ret = 0]
  /\ Parked

NextReservoir ==
  \/ ReadHeaderLine
  \/ ReadDataLine
  \/ EndOfStream
  \/ WriteSample

SpecReservoir == InitReservoir /\ [][NextReservoir]_vars

\* ------------------------------------------------------------------------
\* C21
\* ------------------------------------------------------------------------
\* the reservoir of v holds min(K, M) lines, each the data line of the stream
\* whose number its slot records, no data line in two slots
ReservoirOK(v) ==
  LET K == v.sample_size
      M == v.line_index
  IN /\ v.sample_count = Min(K, M)
     /\ Len(v.sample_lines) = v.sample_count
     /\ Len(v.from) = v.sample_count
     /\ M = (IF v.full = <<>> THEN 0 ELSE Len(v.full) - 1)
     /\ \A s \in 1..v.sample_count :
          /\ v.from[s] \in 1..M
          /\ v.sample_lines[s] = v.full[v.from[s] + 1]
     /\ \A s, t \in 1..v.sample_count : (v.from[s] = v.from[t]) => (s = t)

\* C21: after every line read by the sampler the reservoir holds exactly
\* min(K, M) lines, each of them a data line of the stream and never the
\* header, no stream position in two slots; and the i-th data line, i > K,
\* replaces slot r, and only that slot, exactly when the value r drawn from
\* 0..i-1 is smaller than K, the reservoir staying as it was otherwise.
C21_Reservoir ==
  [][ (variant.prog = "code4") =>
        /\ ReservoirOK(variant')
        /\ (variant'.line_index # variant.line_index /\ variant'.line_index > variant.sample_size)
             => LET i == variant'.line_index
                    K == variant.sample_size
                    r == variant'.r
                    line == variant'.full[i + 1]
                IN /\ r \in 0..(i - 1)
                   /\ IF r < K
                      THEN /\ variant'.sample_lines =
                                [variant.sample_lines EXCEPT ![r + 1] = line]
                           /\ variant'.from = [variant.from EXCEPT ![r + 1] = i]
                      ELSE /\ variant'.sample_lines = variant.sample_lines
                           /\ variant'.from = variant.from
    ]_vars

\* a reservoir of two slots after three data lines, the third one in slot 0
\* and carrying the same text as the header
C21_Witness ==
  /\ variant.prog = "code4" /\ variant.at = "done"
  /\ variant.sample_size = 2 /\ variant.line_index = 3
  /\ variant.r = 0
  /\ variant.from = <<3, 2>>
  /\ variant.full[4] = variant.full[1]
  /\ variant.samp = <<variant.full[1], variant.full[4], variant.full[3]>>

\* ------------------------------------------------------------------------
\* The union-schema merger (code3.c): the load loop of main
\* ------------------------------------------------------------------------
MAX_FIELD_BUF == 8192
MaxInputs == 2
MaxUnionRows == 3

RECURSIVE ParseCsvFrom(_, _, _, _, _)
\* the loop of parse_csv_line from position i (1-based); the terminating NUL
\* is the position after the last character
ParseCsvFrom(line, i, inQuote, buf, fields) ==
  LET ch == IF i <= Len(line) THEN line[i] ELSE "NUL"
      put(c) == IF Len(buf) < MAX_FIELD_BUF - 1 THEN Append(buf, c) ELSE buf
  IN IF ch = QUOTE
     THEN IF ~inQuote THEN ParseCsvFrom(line, i + 1, TRUE, buf, fields)
          ELSE IF i + 1 <= Len(line) /\ line[i + 1] = QUOTE
               THEN ParseCsvFrom(line, i + 2, TRUE, put(QUOTE), fields)
               ELSE ParseCsvFrom(line, i + 1, FALSE, buf, fields)
     ELSE IF (ch = "," /\ ~inQuote) \/ ch = "NUL" \/ ch = "\n" \/ ch = "\r"
          THEN IF ch = "NUL" \/ ch = "\n" \/ ch = "\r"
               THEN Append(fields, buf)
               ELSE ParseCsvFrom(line, i + 1, inQuote, <<>>, Append(fields, buf))
          ELSE ParseCsvFrom(line, i + 1, inQuote, put(ch), fields)

parse_csv_line(line) == ParseCsvFrom(line, 1, FALSE, <<>>, <<>>)

\* main: the end of line is cut from what getline returned
strip_newline(line) ==
  LET n == Len(line) IN
  IF n > 0 /\ line[n] \in {"\n", "\r"}
  THEN IF n > 1 /\ line[n - 1] = "\r" THEN SubSeq(line, 1, n - 2)
       ELSE SubSeq(line, 1, n - 1)
  ELSE line

\* the index (0-based) of name in the global columns, -1 when it is new
column_index(names, name) ==
  IF \E i \in 1..Len(names) : names[i] = name
  THEN (CHOOSE i \in 1..Len(names) :
          names[i] = name /\ \A j \in 1..(i - 1) : names[j] # name) - 1
  ELSE -1

\* the global columns after add_or_get_column(name)
add_or_get_column(names, name) ==
  IF column_index(names, name) # -1 THEN names ELSE Append(names, name)

RECURSIVE MapColumns(_, _, _, _)
\* the loop over the header fields c = 1 .. header_count - 1: the global
\* columns and local_to_global built so far
MapColumns(names, l2g, header_fields, c) ==
  IF c >= Len(header_fields) THEN [names |-> names, l2g |-> l2g]
  ELSE LET grown == add_or_get_column(names, header_fields[c + 1])
       IN MapColumns(grown, Append(l2g, column_index(grown, header_fields[c + 1])),
                     header_fields, c + 1)

\* every row gets NULL cells up to new_col_count
ensure_row_width(rows, new_col_count) ==
  [i \in 1..Len(rows) |->
     [rows[i] EXCEPT !.values =
        [g \in 1..new_col_count |-> IF g <= Len(@) THEN @[g] ELSE NULL]]]

\* the row index (0-based) the hash table holds for appno, -1 when absent
row_of(ht, appno) ==
  IF \E e \in 1..Len(ht) : ht[e].key = appno
  THEN ht[CHOOSE e \in 1..Len(ht) : ht[e].key = appno].row_index
  ELSE -1

\* the table and the hash table after get_or_create_row(appno)
get_or_create_row(ht, rows, appno, col_count) ==
  IF row_of(ht, appno) # -1
  THEN [ht |-> ht, rows |-> rows, idx |-> row_of(ht, appno)]
  ELSE [ht |-> Append(ht, [key |-> appno, row_index |-> Len(rows)]),
        rows |-> Append(rows, [appno |-> appno, values |-> [g \in 1..col_count |-> NULL]]),
        idx |-> Len(rows)]

RECURSIVE FillFrom(_, _, _, _)
RECURSIVE FillFrom_mut(_, _, _, _)
\* an empty field leaves the stored value as it is
FillFrom_mut(values, l2g, fields, c) ==
  IF ~(c < Len(l2g) /\ c < Len(fields)) THEN values
  ELSE IF fields[c + 1] = <<>>
       THEN FillFrom_mut(values, l2g, fields, c + 1)
       ELSE FillFrom_mut([values EXCEPT ![l2g[c + 1] + 1] = Ptr(fields[c + 1])],
                         l2g, fields, c + 1)

\* for (c = 1; c < header_count && c < field_count; ++c) values[gidx] = fields[c]
FillFrom(values, l2g, fields, c) ==
  IF ~(c < Len(l2g) /\ c < Len(fields)) THEN values
  ELSE FillFrom([values EXCEPT ![l2g[c + 1] + 1] = Ptr(fields[c + 1])],
                l2g, fields, c + 1)

S_application_number_name ==
  <<"a", "p", "p", "l", "i", "c", "a", "t", "i", "o", "n", "_",
    "n", "u", "m", "b", "e", "r">>

UH_id_x == <<"i", "d", ",", "x", "\n">>
UH_k_y_x == <<"k", ",", "y", ",", "x", "\r", "\n">>
UH_id_x_x == <<"i", "d", ",", "x", ",", "x">>
UnionHeaders == {UH_id_x, UH_k_y_x, UH_id_x_x}

UL_1_empty == <<"1", ",", "\n">>
UL_1 == <<"1", "\n">>
UL_1_b_c == <<"1", ",", "b", ",", "c", "\n">>
UL_2_q == <<"2", ",", QUOTE, "a", ",", QUOTE, "\n">>
UL_nokey == <<",", "z", "\n">>
UnionLines == {UL_1_empty, UL_1, UL_1_b_c, UL_2_q, UL_nokey}

\* main of code3.c before the first input file is opened; log is history:
\* per data line read, the column map of its file and the line
InitUnion ==
  /\ MainParked
  /\ \E n \in 2..MaxInputs :
       variant = [prog |-> "code3", at |-> "open", num_inputs |-> n, fi |-> 0,
                  cols |-> <<>>, rows |-> <<>>, ht |-> <<>>,
                  global_col_count |-> 0, local_to_global |-> <<>>,
                  log |-> <<>>]

UnionNextFile(v) ==
  [v EXCEPT !.fi = @ + 1,
            !.at = IF v.fi + 1 < v.num_inputs THEN "open" ELSE "sort"]

\* fopen fails, or getline finds no header line: continue
UnionSkipFile ==
  /\ variant.prog = "code3" /\ variant.at = "open"
  /\ variant' = UnionNextFile(variant)
  /\ Parked

\* the header line is read: its columns join the global columns
UnionOpenFile ==
  /\ variant.prog = "code3" /\ variant.at = "open"
  /\ \E h \in UnionHeaders :
       LET header_fields == parse_csv_line(strip_newline(h))
           first == IF variant.cols = <<>>
                    THEN add_or_get_column(variant.cols, S_application_number_name)
                    ELSE variant.cols
           m == MapColumns(first, <<0>>, header_fields, 1)
       IN variant' = [variant EXCEPT
            !.cols = m.names,
            !.local_to_global = m.l2g,
            !.rows = ensure_row_width(@, Len(m.names)),
            !.global_col_count = Len(m.names),
            !.at = "rows"]
  /\ Parked

\* one data line is read; a line with an empty first field is dropped
UnionReadRow ==
  /\ variant.prog = "code3" /\ variant.at = "rows"
  /\ Len(variant.log) < MaxUnionRows
  /\ \E l \in UnionLines :
       LET fields == parse_csv_line(strip_newline(l))
           logged == [variant EXCEPT !.log = Append(@, [l2g |-> variant.local_to_global,
                                                       line |-> l])]
       IN IF Len(fields) = 0 \/ fields[1] = <<>>
          THEN variant' = logged
          ELSE LET g == get_or_create_row(variant.ht, variant.rows, fields[1],
                                          variant.global_col_count)
               IN variant' = [logged EXCEPT
                    !.ht = g.ht,
                    !.rows = [g.rows EXCEPT ![g.idx + 1].values =
                                FillFrom(@, variant.local_to_global, fields, 1)]]
  /\ Parked

\* getline returns -1: the file is closed
UnionEndFile ==
  /\ variant.prog = "code3" /\ variant.at = "rows"
  /\ variant' = UnionNextFile(variant)
  /\ Parked

NextUnion ==
  \/ UnionSkipFile
  \/ UnionOpenFile
  \/ UnionReadRow
  \/ UnionEndFile

SpecUnion == InitUnion /\ [][NextUnion]_vars

\* ------------------------------------------------------------------------
\* C22
\* ------------------------------------------------------------------------
\* the fields of the i-th data line read
LoggedFields(i) == parse_csv_line(strip_newline(variant.log[i].line))

\* the local columns (0-based, past the key) of the i-th data line that
\* supply global column g
Supplying(i, g) ==
  {c \in 1..(Len(LoggedFields(i)) - 1) :
     c < Len(variant.log[i].l2g) /\ variant.log[i].l2g[c + 1] = g}

\* the data lines of key that supply global column g
Suppliers(key, g) ==
  {i \in 1..Len(variant.log) :
     LoggedFields(i)[1] = key /\ Supplying(i, g) # {}}

SetMax(S) == CHOOSE x \in S : \A y \in S : y <= x

\* C22: in the union-schema merger the value stored for a key in a global
\* column is the value of the last data row of that key, in read order, that
\* supplies the column, whatever earlier rows supplied and also when that
\* last value is empty; a column no row of the key supplied holds no value.
C22_LastRowWins ==
  (variant.prog = "code3") =>
    \A r \in 1..Len(variant.rows) :
      /\ Len(variant.rows[r].values) = variant.global_col_count
      /\ \A g \in 0..(variant.global_col_count - 1) :
           LET from == Suppliers(variant.rows[r].appno, g)
           IN variant.rows[r].values[g + 1] =
                (IF from = {} THEN NULL
                 ELSE LET i == SetMax(from)
                      IN Ptr(LoggedFields(i)[SetMax(Supplying(i, g)) + 1]))

\* key 1 got b and c for columns y and x in the first file and an empty x in
\* the second
C22_Witness ==
  /\ variant.prog = "code3" /\ variant.fi = 1 /\ variant.at = "rows"
  /\ Len(variant.log) = 2
  /\ variant.log[1] = [l2g |-> <<0, 1, 2>>, line |-> UL_1_b_c]
  /\ variant.log[2] = [l2g |-> <<0, 2>>, line |-> UL_1_empty]
  /\ variant.cols = <<S_application_number_name, <<"y">>, <<"x">>>>
  /\ variant.rows = <<[appno |-> <<"1">>, values |-> <<NULL, Ptr(<<"b">>), Ptr(<<>>)>>]>>

\* ------------------------------------------------------------------------
\* C23
\* ------------------------------------------------------------------------
\* C23: after every ingested data row a file table holds at most one row per
\* key, the index maps the key of every row to the index of that row, every
\* index entry points at a row with its key, and there are as many index
\* entries as rows.
C23_TableIndex ==
  \A f \in 1..nfiles :
    LET fs == fileStores[f]
        entries == fs.id_to_idx.entries
    IN /\ Len(fs.ids) = fs.nrows
       /\ Len(fs.cells) = fs.nrows
       /\ NoDup(fs.ids)
       /\ \A r \in 0..(fs.nrows - 1) :
            \E e \in 1..Len(entries) :
              entries[e].key = fs.ids[r + 1] /\ entries[e].value = r
       /\ \A e \in 1..Len(entries) :
            /\ entries[e].value \in 0..(fs.nrows - 1)
            /\ fs.ids[entries[e].value + 1] = entries[e].key
       /\ Len(entries) = fs.nrows

\* three data lines, the first and the third with the same key, made two rows
C23_Witness ==
  /\ nfiles = 1 /\ Loaded(1)
  /\ input[1].lines = <<LL_1_a, LL_2, LL_1_b>>
  /\ fileStores[1].ids = <<(<<"1">>), (<<"2">>)>>
  /\ fileStores[1].nrows = 2
  /\ Len(fileStores[1].id_to_idx.entries) = 2

\* ------------------------------------------------------------------------
\* C24
\* ------------------------------------------------------------------------
\* a cell after a value has been merged into it: unchanged by an empty value,
\* the value itself when the cell was never set, joined by " || " otherwise
MergedInto(cell, value) ==
  IF value = <<>> THEN cell
  ELSE IF cell = NULL THEN Ptr(value)
  ELSE Ptr(cell[1] \o <<" ", "|", "|", " ">> \o value)

\* the row index (1-based) of key in the table fs
RowIndex(fs, key) == CHOOSE r \in 1..Len(fs.ids) : fs.ids[r] = key

\* the cell of header column c (0-based, not the key) in row r of fs
CellAt(fs, r, c) == fs.cells[r][IF c < fs.id_col THEN c + 1 ELSE c]

\* C24: a data row whose fields do not reach the key column leaves the table
\* as it is; any other row, also one with fewer fields than the header, is
\* ingested: its key has a row, every non-key column it has a field for gets
\* that field merged, every non-key column past its last field keeps its cell
\* (no value when the row is new), and the other rows are untouched.
C24_ShortRows ==
  [][ (pc = "rows" /\ input' # input) =>
        LET f == fi + 1
            old == fileStores[f]
            new == fileStores'[f]
            line == trim_eol(input'[f].lines[Len(input'[f].lines)])
            fields == parse_delim_line(line, old.delim)
        IN IF line = <<>> \/ old.id_col >= Len(fields)
           THEN fileStores' = fileStores
           ELSE LET key == fields[old.id_col + 1]
                    known == key \in Range(old.ids)
                IN /\ key \in Range(new.ids)
                   /\ new.nrows = old.nrows + (IF known THEN 0 ELSE 1)
                   /\ \A c \in 0..(old.ncols - 1) : (c # old.id_col) =>
                        LET before == IF known THEN CellAt(old, RowIndex(old, key), c)
                                      ELSE NULL
                            after == CellAt(new, RowIndex(new, key), c)
                        IN after = (IF c < Len(fields)
                                    THEN MergedInto(before, fields[c + 1])
                                    ELSE before)
                   /\ \A r \in 1..old.nrows :
                        /\ new.ids[r] = old.ids[r]
                        /\ (old.ids[r] # key) => (new.cells[r] = old.cells[r])
    ]_vars

\* two rows of two fields under a header of three columns: the second column
\* is merged, the third never set
C24_Witness ==
  /\ nfiles = 1 /\ Loaded(1)
  /\ input[1].header = Ptr(H_x_x_x)
  /\ input[1].lines = <<LL_1_a, LL_1_b>>
  /\ fileStores[1].ids = <<(<<"1">>)>>
  /\ fileStores[1].cells = <<(<<Ptr(<<"a", " ", "|", "|", " ", "b">>), NULL>>)>>

\* ------------------------------------------------------------------------
\* C25
\* ------------------------------------------------------------------------
\* the load of file f (1-based) has ended: the load loop is past it
LoadEnded(f) == f <= fi

\* C25: the table of a file whose load has ended is never modified again, so
\* that computing the eligible keys, shuffling them and writing the header
\* and the rows leave every table as it was; and the category of a file does
\* not change once its header has been read.
C25_TablesReadOnly ==
  [][ /\ \A f \in 1..nfiles : LoadEnded(f) => fileStores'[f] = fileStores[f]
      /\ (pc \in {"eligible", "check", "shuffle", "header", "write", "done"})
           => fileStores' = fileStores
      /\ \A f \in 1..nfiles : Loaded(f) =>
           /\ fileStores'[f].is_claim = fileStores[f].is_claim
           /\ fileStores'[f].claim_year = fileStores[f].claim_year
    ]_vars

\* a finished run over a primary file and a claims file that wrote a row
C25_Witness ==
  /\ Finished /\ out.open
  /\ Primaries # {} /\ ClaimsFiles # {}
  /\ Len(out.rows) >= 1
  /\ \A f \in 1..nfiles : fileStores[f].nrows >= 1

\* ------------------------------------------------------------------------
\* Runs over files whose rows hold two keys in either order
\* ------------------------------------------------------------------------
MaxOrderRows == 4

InitOrder == InitWith(Paths, {DEFAULT_SAMPLE}, MaxFiles)

NextOrder ==
  \/ OpenFail
  \/ EmptyFile
  \/ OpenFile({H_id_x})
  \/ ReadRow({L_1_1, L_3}, MaxOrderRows)
  \/ EndFile
  \/ BuildEligible
  \/ EmptyExit
  \/ CapSample
  \/ ShuffleStep
  \/ OpenOut
  \/ OpenOutFail
  \/ WriteHeader
  \/ WriteRows

SpecOrder == InitOrder /\ [][NextOrder]_vars

\* ------------------------------------------------------------------------
\* C26
\* ------------------------------------------------------------------------
\* the first primary file, in load order, among those with the fewest rows
SmallestPrimary ==
  LET fewest == SetMin({fileStores[f].nrows : f \in Primaries})
  IN SetMin({f \in Primaries : fileStores[f].nrows = fewest})

\* the position of the first data row of file f that has key
FirstRowOf(f, key) ==
  SetMin({i \in 1..Len(KeyedRows(f)) : KeyOf(f, KeyedRows(f)[i]) = key})

\* key is in every primary table and, if there is a claims file, in one of them
EligibleKey(key) ==
  /\ \A f \in Primaries : key \in Keys(f)
  /\ (ClaimsFiles = {} \/ \E f \in ClaimsFiles : key \in Keys(f))

\* C26: with at least one primary table the probe base is the first primary
\* table, in load order, among those with the fewest rows; its keys are in
\* the order in which its data rows first showed them; and the eligible
\* sequence before the shuffle is the subsequence of those keys that are
\* eligible: a function of the load order and the file contents alone.
C26_CandidateOrder ==
  (Computed /\ Primaries # {}) =>
    LET base == SmallestPrimary
        ids == fileStores[base].ids
    IN /\ BaseIndex(fileStores) = base - 1
       /\ \A r, t \in 1..Len(ids) :
            (r < t) => (FirstRowOf(base, ids[r]) < FirstRowOf(base, ids[t]))
       /\ eligibleIDs = SelectSeq(ids, EligibleKey)

\* two primary tables with the same two keys in opposite orders: the order of
\* the first one decides
C26_Witness ==
  /\ Computed /\ nfiles = 2 /\ Primaries = {1, 2}
  /\ fileStores[1].ids = <<(<<"3">>), (<<"1">>)>>
  /\ fileStores[2].ids = <<(<<"1">>), (<<"3">>)>>
  /\ eligibleIDs = <<(<<"3">>), (<<"1">>)>>

\* ------------------------------------------------------------------------
\* C27
\* ------------------------------------------------------------------------
\* file f was opened and had no header line
Headerless(f) == LoadEnded(f) /\ input[f].header = NULL

\* C27: a file without a header line has no columns and no rows and is a
\* primary file whatever its name, a name holding claims_ and a year
\* included; and a run that loaded such a file finds no eligible key.
C27_EmptyFile ==
  /\ \A f \in 1..nfiles : Headerless(f) =>
       /\ fileStores[f].ncols = 0
       /\ fileStores[f].cols = <<>>
       /\ fileStores[f].nrows = 0
       /\ fileStores[f].ids = <<>>
       /\ ~fileStores[f].is_claim
       /\ fileStores[f].claim_year = 0
  /\ (\E f \in 1..nfiles : Headerless(f)) => eligibleIDs = <<>>

\* an empty file named as a claims file next to a claims file with rows: the
\* run ends without an eligible key
C27_Witness ==
  /\ pc = "done" /\ exit_code = 0 /\ nfiles = 2
  /\ paths = <<P_claims, P_claims>>
  /\ Headerless(1)
  /\ fileStores[2].is_claim /\ fileStores[2].nrows >= 1
  /\ eligibleIDs = <<>>

\* ------------------------------------------------------------------------
\* C28
\* ------------------------------------------------------------------------
RECURSIVE DrawsFrom(_, _)
\* the values of j of the iterations i - 1, i, .. of a shuffle of n entries,
\* as the sequences d with i - 1 <= d[i] < n
DrawsFrom(i, n) ==
  IF i > n THEN {<<>>}
  ELSE {<<j>> \o d : j \in (i - 1)..(n - 1), d \in DrawsFrom(i + 1, n)}

\* the values of j of a whole shuffle of n entries: i <= j < n in iteration i
DrawsOf(n) == DrawsFrom(1, n)

RECURSIVE ShuffleWith(_, _, _)
\* the array after the iterations i, i + 1, .. of shuffle with the draws d
ShuffleWith(a, i, d) ==
  IF i >= Len(a) THEN a ELSE ShuffleWith(shuffle_swap(a, i, d[i + 1]), i + 1, d)

\* the number of entries of seq equal to x
CountOf(seq, x) == Cardinality({i \in 1..Len(seq) : seq[i] = x})

\* the results of shuffle on a, over all draws
Shuffles(a) == {ShuffleWith(a, 0, d) : d \in DrawsOf(Len(a))}

\* the arrangements of the entries of a
PermutationsOf(a) ==
  {p \in [1..Len(a) -> Range(a)] : \A x \in Range(a) : CountOf(p, x) = CountOf(a, x)}

\* C28: from its start to the end of the run the shuffle keeps the length and
\* the multiset of the eligible keys, no key lost or doubled; it has made
\* exactly n iterations when it is left; and every arrangement of the n keys,
\* hence every choice of the first N of them, is the result of the n
\* iterations for some draws.
C28_ShufflePermutation ==
  (pc \in {"shuffle", "header", "write"} \/ (pc = "done" /\ fi = nfiles)) =>
    LET a == build_eligible_ids(fileStores)
        n == Len(a)
    IN /\ Len(eligibleIDs) = n
       /\ \A x \in Range(a) \cup Range(eligibleIDs) :
            CountOf(eligibleIDs, x) = CountOf(a, x)
       /\ si <= n
       /\ (pc # "shuffle") => (si = n)
       /\ (si = n) => eligibleIDs \in Shuffles(a)
       /\ PermutationsOf(a) \subseteq Shuffles(a)

\* three eligible keys left in the reverse of the order they were found in
C28_Witness ==
  /\ Finished /\ out.open /\ si = 3
  /\ build_eligible_ids(fileStores) = <<(<<"1">>), (<<"3">>), (<<"2">>)>>
  /\ eligibleIDs = <<(<<"2">>), (<<"3">>), (<<"1">>)>>

\* ------------------------------------------------------------------------
\* C29
\* ------------------------------------------------------------------------
\* the index entry of key in file f, as hmap_get returns it
Indexed(f, key) == hmap_get(fileStores[f].id_to_idx, key)

\* C29: the key of every written row is an eligible key and has an entry in
\* the index of every primary file, so that the cells of a primary file in
\* the row are the cells of the row the index points at; a file that fills
\* its part of a row with blanks for want of the key is a claims file.
C29_PrimaryCellsStored ==
  (Finished /\ out.open) =>
    \A r \in 1..Len(out.rows) :
      LET key == out.rows[r][1] IN
      /\ key \in Range(eligibleIDs)
      /\ EligibleKey(key)
      /\ \A f \in Primaries :
           /\ Indexed(f, key) # NULL
           /\ fileStores[f].ids[Indexed(f, key)[1].value + 1] = key
           /\ Segment(out.rows[r], f) =
                [k \in 1..fileStores[f].n_nonid |->
                   CellText(fileStores[f].cells[Indexed(f, key)[1].value + 1][k])]
      /\ \A f \in 1..nfiles : (Indexed(f, key) = NULL) =>
           /\ f \in ClaimsFiles
           /\ \A k \in 1..Len(Segment(out.rows[r], f)) : Segment(out.rows[r], f)[k] = <<>>

\* two primary files written side by side, one of them with a key the other
\* one lacks and that no row carries
C29_Witness ==
  /\ Finished /\ out.open /\ nfiles = 2
  /\ Primaries = {1, 2}
  /\ Keys(1) \ Keys(2) # {}
  /\ Len(out.rows) >= 1
  /\ \E r \in 1..Len(out.rows) : out.rows[r][2] # <<>> /\ out.rows[r][3] # <<>>

\* ------------------------------------------------------------------------
\* Merger.c, the older variant of the merger: every data row of a file is
\* pushed as a row of its own, with its non-key fields joined into one
\* fragment of text.  Its trim_eol, parse_delim_line, detect_id_col,
\* parse_claim_year_from_name, file_stem, hmap_init, hmap_put, hmap_get and
\* shuffle have the statements of their namesakes above, and the operators
\* above stand for them; its claims union and base selection are the loops
\* of ClaimsUnion, HaveClaims and BaseIndex.
\* ------------------------------------------------------------------------
Merger_sample == 100000
MaxMergerFiles == 2
MaxMergerRows == 3

\* filestore_init of Merger.c
Merger_filestore_init(path) ==
  [path |-> Ptr(path), delim |-> ",", id_col |-> 0, is_claim |-> FALSE,
   claim_year |-> 0, cols |-> <<>>, ncols |-> 0,
   id_to_idx |-> hmap_init(HASH_BUCKETS),
   ids |-> <<>>, row_frag |-> <<>>, nrows |-> 0]

\* a key the index already holds gets no second row
filestore_push_mut(fs, id, frag) ==
  IF hmap_get(fs.id_to_idx, id) # NULL THEN fs
  ELSE [fs EXCEPT !.ids = Append(@, id),
                  !.row_frag = Append(@, frag),
                  !.id_to_idx = hmap_put(@, id, fs.nrows),
                  !.nrows = @ + 1]

\* ids[nrows] = id; row_frag[nrows] = frag; the index maps id to nrows,
\* which overwrites the value of an entry the key already has; nrows++
filestore_push(fs, id, frag) ==
  [fs EXCEPT !.ids = Append(@, id),
             !.row_frag = Append(@, frag),
             !.id_to_idx = hmap_put(@, id, fs.nrows),
             !.nrows = @ + 1]

RECURSIVE FragFrom(_, _, _, _, _)
\* the fragment loop of load_file from field i (0-based): the fields other
\* than the key, raw, with OUTPUT_DELIM between them
FragFrom(row, id_col, i, first, frag) ==
  IF i >= Len(row) THEN frag
  ELSE IF i = id_col THEN FragFrom(row, id_col, i + 1, first, frag)
  ELSE FragFrom(row, id_col, i + 1, FALSE,
                (IF first THEN frag ELSE Append(frag, OUTPUT_DELIM)) \o row[i + 1])

\* the header part of load_file of Merger.c, on the first line read
Merger_load_header(fs, raw) ==
  LET line == trim_eol(raw)
      delim == IF (\E i \in 1..Len(line) : line[i] = "\t")
                  /\ ~(\E i \in 1..Len(line) : line[i] = ",")
               THEN "\t" ELSE ","
      year == parse_claim_year_from_name(fs.path[1])
      hf == parse_delim_line(line, delim)
  IN [fs EXCEPT !.delim = delim, !.claim_year = year, !.is_claim = (year > 0),
                !.ncols = Len(hf), !.cols = hf, !.id_col = detect_id_col(hf)]

\* the body of the read loop of load_file of Merger.c, on one data line
Merger_load_row(fs, raw) ==
  LET line == trim_eol(raw)
      row == parse_delim_line(line, fs.delim)
  IN IF line = <<>> THEN fs
     ELSE IF Len(row) = 0 THEN fs
     ELSE IF fs.id_col >= Len(row) THEN fs
     ELSE filestore_push(fs, row[fs.id_col + 1], FragFrom(row, fs.id_col, 0, TRUE, <<>>))

RECURSIVE Merger_ProbeFrom(_, _, _, _)
\* the probe loop of build_eligible_ids of Merger.c over the rows of the base
Merger_ProbeFrom(stores, base, r, acc) ==
  IF r >= stores[base + 1].nrows THEN acc
  ELSE LET id == stores[base + 1].ids[r + 1]
           ok == \A i \in 0..(Len(stores) - 1) :
                   (i = base \/ stores[i + 1].is_claim)
                     \/ hmap_get(stores[i + 1].id_to_idx, id) # NULL
       IN IF ~ok THEN Merger_ProbeFrom(stores, base, r + 1, acc)
          ELSE IF HaveClaims(stores) /\ hmap_get(ClaimsUnion(stores), id) = NULL
          THEN Merger_ProbeFrom(stores, base, r + 1, acc)
          ELSE Merger_ProbeFrom(stores, base, r + 1, Append(acc, id))

Merger_build_eligible_ids(stores) ==
  LET base == BaseIndex(stores) IN
  IF base = -1
  THEN (IF ~HaveClaims(stores) THEN <<>> ELSE hmap_walk(ClaimsUnion(stores)))
  ELSE Merger_ProbeFrom(stores, base, 0, <<>>)

RECURSIVE Merger_HeaderFrom(_, _, _, _, _)
\* the two nested loops of write_header of Merger.c from file i, column c;
\* text is the text written so far
Merger_HeaderFrom(stores, i, c, used, text) ==
  IF i >= Len(stores) THEN text
  ELSE IF c >= stores[i + 1].ncols THEN Merger_HeaderFrom(stores, i + 1, 0, used, text)
  ELSE IF c = stores[i + 1].id_col THEN Merger_HeaderFrom(stores, i, c + 1, used, text)
  ELSE LET stem == file_stem(stores[i + 1].path[1], STEM_BUF_HEADER)
           namebuf == NameBuf(stores[i + 1], c)
           name == IF hmap_get(used, namebuf) # NULL
                   THEN Dedup(namebuf, stem) ELSE namebuf
       IN Merger_HeaderFrom(stores, i, c + 1, hmap_put(used, name, 1),
                            Append(text, OUTPUT_DELIM) \o name)

\* the header line without its newline
Merger_write_header(stores, id_name) ==
  Merger_HeaderFrom(stores, 0, 0, hmap_put(hmap_init(USED_BUCKETS), id_name, 1), id_name)

RECURSIVE Merger_RowFrom(_, _, _, _)
\* the loop over the files of write_rows of Merger.c for one id; acc is the
\* text written so far
Merger_RowFrom(stores, id, f, acc) ==
  IF f >= Len(stores) THEN acc
  ELSE LET e == hmap_get(stores[f + 1].id_to_idx, id)
           blanks == stores[f + 1].ncols - 1
       IN IF e # NULL
          THEN Merger_RowFrom(stores, id, f + 1,
                 Append(acc, OUTPUT_DELIM) \o stores[f + 1].row_frag[e[1].value + 1])
          ELSE Merger_RowFrom(stores, id, f + 1,
                 acc \o [k \in 1..blanks |-> OUTPUT_DELIM])

\* the lines written, each without its newline
Merger_write_rows(stores, ids, nsel) ==
  [i \in 1..nsel |-> Merger_RowFrom(stores, ids[i], 0, ids[i])]

\* inputs: a primary and a claims path, the header y,patent_id with the key
\* in the second column, data lines with the key 1 twice and the key 2
\* once, and a line too short to have a key
MergerPaths == {P_a, P_claims}
\* the run without -n
MergerSamples == {Merger_sample}
MergerHeaders == {H_y_pid}
ML_a_1 == <<"a", ",", "1", "\n">>
ML_b_1 == <<"b", ",", "1", "\n">>
ML_c_2 == <<"c", ",", "2">>
ML_2 == <<"2", "\n">>
MergerLines == {ML_a_1, ML_b_1, ML_c_2, ML_2}

\* main of Merger.c after the arguments are read; input is history: the data
\* lines read from each file
InitMerger ==
  /\ MainParked
  /\ \E n \in 1..MaxMergerFiles :
       \E p \in [1..n -> MergerPaths] :
         \E s \in MergerSamples :
           variant = [prog |-> "Merger", at |-> "open", paths |-> p, sample |-> s,
                      fi |-> 0, stores |-> <<>>, input |-> <<>>,
                      eligible |-> <<>>, si |-> 0,
                      out |-> [open |-> FALSE, header |-> <<>>, rows |-> <<>>],
                      ret |-> -1]

\* the end of load_file of file fi: the next file, or the selection
MergerNextFile(v) ==
  [v EXCEPT !.fi = @ + 1,
            !.at = IF v.fi + 1 < Len(v.paths) THEN "open" ELSE "build"]

\* fopen of an input fails: perror and exit(1)
MergerOpenFail ==
  /\ variant.prog = "Merger" /\ variant.at = "open"
  /\ variant' = [variant EXCEPT
       !.stores = Append(@, Merger_filestore_init(variant.paths[variant.fi + 1])),
       !.input = Append(@, <<>>),
       !.at = "done", !.ret = 1]
  /\ Parked

\* fgets finds no header line: load_file returns with the store as initialised
MergerEmptyFile ==
  /\ variant.prog = "Merger" /\ variant.at = "open"
  /\ variant' = MergerNextFile([variant EXCEPT
       !.stores = Append(@, Merger_filestore_init(variant.paths[variant.fi + 1])),
       !.input = Append(@, <<>>)])
  /\ Parked

\* the header line is read
MergerOpenFile ==
  /\ variant.prog = "Merger" /\ variant.at = "open"
  /\ \E h \in MergerHeaders :
       variant' = [variant EXCEPT
         !.stores = Append(@, Merger_load_header(
                       Merger_filestore_init(variant.paths[variant.fi + 1]), h)),
         !.input = Append(@, <<>>),
         !.at = "rows"]
  /\ Parked

\* the number of data lines read so far
RECURSIVE MergerLinesFrom(_, _)
MergerLinesFrom(inp, i) ==
  IF i > Len(inp) THEN 0 ELSE Len(inp[i]) + MergerLinesFrom(inp, i + 1)

MergerLinesRead(v) == MergerLinesFrom(v.input, 1)

\* one data line is read
MergerReadRow ==
  /\ variant.prog = "Merger" /\ variant.at = "rows"
  /\ MergerLinesRead(variant) < MaxMergerRows
  /\ \E l \in MergerLines :
       variant' = [variant EXCEPT
         !.stores[variant.fi + 1] = Merger_load_row(@, l),
         !.input[variant.fi + 1] = Append(@, l)]
  /\ Parked

\* fgets returns NULL: the file is closed
MergerEndFile ==
  /\ variant.prog = "Merger" /\ variant.at = "rows"
  /\ variant' = MergerNextFile(variant)
  /\ Parked

\* build_eligible_ids, the exit with status 0 when no id is eligible, and the
\* cap of the sample size
MergerSelect ==
  /\ variant.prog = "Merger" /\ variant.at = "build"
  /\ LET e == Merger_build_eligible_ids(variant.stores) IN
       IF Len(e) = 0
       THEN variant' = [variant EXCEPT !.at = "done", !.ret = 0]
       ELSE variant' = [variant EXCEPT
              !.eligible = e,
              !.sample = IF SizeTGreater(@, Len(e)) THEN Len(e) ELSE @,
              !.si = 0,
              !.at = "shuffle"]
  /\ Parked

\* one iteration of shuffle: j = i + rand() % (n - i), swap a[i] and a[j]
MergerShuffleStep ==
  /\ variant.prog = "Merger" /\ variant.at = "shuffle"
  /\ variant.si < Len(variant.eligible)
  /\ \E j \in variant.si..(Len(variant.eligible) - 1) :
       variant' = [variant EXCEPT !.eligible = shuffle_swap(@, variant.si, j),
                                  !.si = @ + 1]
  /\ Parked

\* fopen of the output fails after the shuffle: perror and return 1
MergerOpenOutFail ==
  /\ variant.prog = "Merger" /\ variant.at = "shuffle"
  /\ variant.si = Len(variant.eligible)
  /\ variant' = [variant EXCEPT !.at = "done", !.ret = 1]
  /\ Parked

\* the output is opened, header and rows are written, the output is closed
MergerWrite ==
  /\ variant.prog = "Merger" /\ variant.at = "shuffle"
  /\ variant.si = Len(variant.eligible)
  /\ LET st == variant.stores
         id_name == IF st[1].ncols > 0 /\ st[1].id_col < st[1].ncols
                    THEN st[1].cols[st[1].id_col + 1] ELSE FALLBACK_ID_NAME
     IN variant' = [variant EXCEPT
          !.out = [open |-> TRUE,
                   header |-> Merger_write_header(st, id_name),
                   rows |-> Merger_write_rows(st, variant.eligible, variant.sample)],
          !.at = "done", !.ret = 0]
  /\ Parked

NextMerger ==
  \/ MergerOpenFail
  \/ MergerEmptyFile
  \/ MergerOpenFile
  \/ MergerReadRow
  \/ MergerEndFile
  \/ MergerSelect
  \/ MergerShuffleStep
  \/ MergerOpenOutFail
  \/ MergerWrite

SpecMerger == InitMerger /\ [][NextMerger]_vars

\* ------------------------------------------------------------------------
\* C30
\* ------------------------------------------------------------------------
\* the data lines of file f that carry a key: not blank, and with a field at
\* the key column
KeyedLines(f) ==
  LET fs == variant.stores[f]
      keyed(l) == /\ trim_eol(l) # <<>>
                  /\ fs.id_col < Len(parse_delim_line(trim_eol(l), fs.delim))
  IN SelectSeq(variant.input[f], keyed)

\* the key of a keyed line of file f
LineKey(f, l) ==
  parse_delim_line(trim_eol(l), variant.stores[f].delim)[variant.stores[f].id_col + 1]

\* the rows (1-based) of file f with the key
RowsWith(f, key) == {r \in 1..Len(variant.stores[f].ids) : variant.stores[f].ids[r] = key}

\* the key is in every primary file and, when there are claims files, in one
\* of them
MergerEligible(key) ==
  LET st == variant.stores
      claims == {f \in 1..Len(st) : st[f].is_claim}
  IN /\ \A f \in (1..Len(st)) \ claims : RowsWith(f, key) # {}
     /\ (claims # {}) => \E f \in claims : RowsWith(f, key) # {}

\* line begins with the key and a delimiter
WrittenFor(line, key) ==
  /\ Len(line) > Len(key)
  /\ SubSeq(line, 1, Len(key)) = key
  /\ line[Len(key) + 1] = OUTPUT_DELIM

\* C30: in Merger.c every keyed data line of a file is a row of its own, in
\* the order read, duplicates of a key included; the index entry of a key
\* points at the last row with that key; when there is a primary file, the
\* eligible list holds each eligible key of the base as many times as the
\* base has rows with it and no other key; and the rows written are for the
\* first sample entries of that list, in its order, so that a key with
\* several entries among them is written in several rows.
C30_DuplicateRowsKept ==
  (variant.prog = "Merger") =>
    LET st == variant.stores
        base == BaseIndex(st)
    IN
    /\ \A f \in 1..Len(st) :
         LET lines == KeyedLines(f) IN
         /\ st[f].nrows = Len(lines)
         /\ Len(st[f].ids) = Len(lines)
         /\ Len(st[f].row_frag) = Len(lines)
         /\ \A r \in 1..Len(lines) :
              /\ st[f].ids[r] = LineKey(f, lines[r])
              /\ hmap_get(st[f].id_to_idx, st[f].ids[r]) # NULL
              /\ hmap_get(st[f].id_to_idx, st[f].ids[r])[1].value + 1
                   = SetMax(RowsWith(f, st[f].ids[r]))
    /\ (variant.at = "shuffle" \/ (variant.at = "done" /\ variant.eligible # <<>>)) =>
         /\ base # -1 =>
              /\ \A key \in Range(st[base + 1].ids) :
                   CountOf(variant.eligible, key) =
                     IF MergerEligible(key) THEN Cardinality(RowsWith(base + 1, key)) ELSE 0
              /\ Range(variant.eligible) \subseteq Range(st[base + 1].ids)
    /\ variant.out.open =>
         /\ Len(variant.out.rows) = variant.sample
         /\ \A i \in 1..Len(variant.out.rows) :
              WrittenFor(variant.out.rows[i], variant.eligible[i])

\* the only file has two lines with the key 1: two rows, the index at the
\* second one, the key twice in the eligible list and in two output rows
C30_Witness ==
  /\ variant.prog = "Merger" /\ variant.at = "done" /\ variant.ret = 0
  /\ Len(variant.stores) = 1
  /\ variant.input[1] = <<ML_a_1, ML_b_1>>
  /\ variant.stores[1].ids = <<(<<"1">>), (<<"1">>)>>
  /\ hmap_get(variant.stores[1].id_to_idx, <<"1">>)[1].value = 1
  /\ variant.eligible = <<(<<"1">>), (<<"1">>)>>
  /\ Len(variant.out.rows) = 2
  /\ \A i \in 1..2 : WrittenFor(variant.out.rows[i], <<"1">>)

====
